---- MODULE Spec2Model ----
(***************************************************************************)
(* A model of agentflow's goal-execution scheduler:                        *)
(*   - Checklist (the task graph): a Map from task id to Task, kept in     *)
(*     insertion order, with its status transitions and adjustments;       *)
(*   - AIAgentOrchestrator.achieveGoal: the outer loop, the p-limit        *)
(*     admission of the batch, the Promise.all join, the recording of the  *)
(*     results and reflectAndAdapt (specification Spec);                   *)
(*   - AIAgentOrchestrator.executeTask: the execution of one task, in      *)
(*     single and in iterative mode, down to callTool (ExecSpec);          *)
(*   - AnthropicLLM: what each method makes of the reply to its request    *)
(*     (LlmSpec);                                                          *)
(*   - the Checklist under any sequence of calls (ChecklistSpec).          *)
(* One action is one synchronous stretch of the code between two awaits.   *)
(***************************************************************************)
EXTENDS Integers, Sequences, FiniteSets, TLC

\* ------------------------------------------------------------------ bounds
\* largest number of tasks the Oracle's decompose returns
MaxInitTasks == 5
\* largest maxIterations a run is configured with (0 stands for "not given")
MaxIterCfg == 2
\* number of adjustments the Oracle returns in one run, over all strategize calls
MaxAdjustments == 1
\* largest maxIterations a task is given (0 stands for "not given")
MaxTaskIter == 3
\* number of callTool calls of one execution that end freely; every later call
\* ends as the call before it did
ToolScriptLen == 2
\* number of calls made on a Checklist after its construction
MaxApiCalls == 2

\* --------------------------------------------------------- program constants
DefaultMaxIterations == 100
DefaultMaxConcurrency == 3
BatchCap == 3
ReflectionWindow == 5
DefaultPriority == 5
DefaultTaskIterations == 10
DefaultSuccessThreshold == 80

VARIABLES
  pc,                \* position of achieveGoal's control thread
  config,            \* the constructor's argument
  maxIterations,     \* this.maxIterations
  concurrency,       \* the limit this.parallelLimit was built with
  tasks,             \* checklist.tasks: the Map, as the sequence of its values in insertion order
  iterations,        \* executionResult.iterations
  tasksCompleted,    \* executionResult.tasksCompleted (the ledger)
  status,            \* executionResult.status
  goalAchieved,      \* the value the last isGoalAchieved() call returned
  tasksToExecute,    \* the batch of the current iteration (task ids, submission order)
  queue,             \* p-limit's queue: batch slots not yet admitted
  activeCount,       \* p-limit's activeCount
  tstate,            \* per batch slot: "queued", "running" or "resolved"
  taskResults,       \* per batch slot: the TaskResult its promise resolved with
  adjusted,          \* number of adjustments applied so far in the run
  now,               \* the value Date.now() last returned to an id-less add
  exec,              \* one executeTask call: its position and its locals
  llm,               \* one call of an AnthropicLLM method: request, reply, outcome
  api                \* the calls made on a Checklist: their number and the last one

\* the state of a run of achieveGoal
runVars == <<pc, config, maxIterations, concurrency, tasks, iterations, tasksCompleted,
             status, goalAchieved, tasksToExecute, queue, activeCount, tstate,
             taskResults, adjusted, now>>

vars == <<runVars, exec, llm, api>>

\* =================================================================== Checklist

TaskStatuses == {"pending", "in_progress", "completed", "failed"}

\* this.tasks.has(id)
Has(ts, id) == \E i \in 1..Len(ts) : ts[i].id = id

\* this.tasks.get(id), for an id the Map has
Get(ts, id) == ts[CHOOSE i \in 1..Len(ts) : ts[i].id = id]

\* this.tasks.set(t.id, t): a known key keeps its place in the insertion order
MapSet(ts, t) ==
  IF Has(ts, t.id)
  THEN [i \in 1..Len(ts) |-> IF ts[i].id = t.id THEN t ELSE ts[i]]
  ELSE Append(ts, t)

RECURSIVE NewMap(_, _)
NewMap(ts, k) == IF k = 0 THEN <<>> ELSE MapSet(NewMap(ts, k - 1), ts[k])

\* new Checklist(tasks, goalDefinition): every task starts pending
NewChecklist(ts) ==
  NewMap([i \in 1..Len(ts) |-> [ts[i] EXCEPT !.status = "pending"]], Len(ts))

\* ResultStatus with a failed task made pending again
ResultStatusRetrying(result) == IF result.success THEN "completed" ELSE "pending"

\* ResultStatus without the test of result.success
ResultStatusAlwaysCompleted(result) == "completed"

\* the status written by updateTaskStatus
ResultStatus(result) == IF result.success THEN "completed" ELSE "failed"

UpdateTaskStatus(ts, taskId, result) ==
  [i \in 1..Len(ts) |->
     IF ts[i].id = taskId
     THEN [ts[i] EXCEPT !.status = ResultStatus(result), !.result = <<result>>]
     ELSE ts[i]]

SetTaskInProgress(ts, taskId) ==
  [i \in 1..Len(ts) |->
     IF ts[i].id = taskId THEN [ts[i] EXCEPT !.status = "in_progress"] ELSE ts[i]]

\* DepBlocks with a dependency that has ended, completed or failed, not blocking
DepBlocksUntilEnded(ts, depId) ==
  IF ~Has(ts, depId) THEN TRUE ELSE Get(ts, depId).status \notin {"completed", "failed"}

\* DepBlocks without its "!dep" test: a dependency naming no task does not block
DepBlocksMissingPasses(ts, depId) ==
  IF ~Has(ts, depId) THEN FALSE ELSE Get(ts, depId).status # "completed"

\* the dependency test inside the loop of getAvailableTasks
DepBlocks(ts, depId) ==
  IF ~Has(ts, depId) THEN TRUE ELSE Get(ts, depId).status # "completed"

\* the for loop over task.dependencies, from position k on
RECURSIVE DepsLoop(_, _, _)
DepsLoop(ts, deps, k) ==
  IF k > Len(deps) THEN TRUE
  ELSE IF DepBlocks(ts, deps[k]) THEN FALSE
  ELSE DepsLoop(ts, deps, k + 1)

\* IsAvailable without the dependency loop
IsAvailableIgnoringDependencies(ts, task) == task.status = "pending"

\* IsAvailable with a failed task taken as a pending one
IsAvailableRetryingFailed(ts, task) ==
  IF task.status \notin {"pending", "failed"} THEN FALSE
  ELSE IF Len(task.dependencies) > 0 THEN DepsLoop(ts, task.dependencies, 1)
  ELSE TRUE

\* the filter callback of getAvailableTasks
IsAvailable(ts, task) ==
  IF task.status # "pending" THEN FALSE
  ELSE IF Len(task.dependencies) > 0 THEN DepsLoop(ts, task.dependencies, 1)
  ELSE TRUE

\* a task list with the tasks of highest priority first
RECURSIVE ByPriority(_)
ByPriority(ts) ==
  IF Len(ts) = 0 THEN <<>>
  ELSE LET top == CHOOSE i \in 1..Len(ts) :
                    \A k \in 1..Len(ts) :
                      \/ ts[k].priority < ts[i].priority
                      \/ (ts[k].priority = ts[i].priority /\ k >= i)
       IN  <<ts[top]>> \o ByPriority(SubSeq(ts, 1, top - 1) \o SubSeq(ts, top + 1, Len(ts)))

\* GetAvailableTasks returning the tasks of highest priority first
GetAvailableTasksByPriority(ts) ==
  ByPriority(SelectSeq(ts, LAMBDA task : IsAvailable(ts, task)))

GetAvailableTasks(ts) == SelectSeq(ts, LAMBDA task : IsAvailable(ts, task))

\* Object.assign(task, modifications)
ObjectAssign(task, modifications) ==
  [f \in DOMAIN task |-> IF f \in DOMAIN modifications THEN modifications[f] ELSE task[f]]

\* obj.f || default for a number: a field the object does not have is
\* undefined, and undefined and 0 are both falsy
OrDefault(obj, f, default) ==
  IF f \in DOMAIN obj THEN (IF obj[f] = 0 THEN default ELSE obj[f]) ELSE default

\* obj.f || [] for an array: every array, the empty one too, is truthy
OrEmpty(obj, f) == IF f \in DOMAIN obj THEN obj[f] ELSE <<>>

\* id: adj.task.id || `task_${Date.now()}`; the id built from the clock value
\* ms is 100 + ms (the Oracle's own ids are 1, 2, ...)
TimestampIdBase == 100
AddedTaskId(adjTask, ms) == OrDefault(adjTask, "id", TimestampIdBase + ms)

\* the task an add adjustment builds (name, description, estimatedComplexity
\* and requiresIterativeExecution, built the same way, are left out)
NewTask(adjTask, ms) ==
  [id                   |-> AddedTaskId(adjTask, ms),
   priority             |-> OrDefault(adjTask, "priority", DefaultPriority),
   dependencies         |-> OrEmpty(adjTask, "dependencies"),
   successThreshold     |-> OrDefault(adjTask, "successThreshold", DefaultSuccessThreshold),
   maxIterations        |-> OrDefault(adjTask, "maxIterations", DefaultTaskIterations),
   requiredCapabilities |-> OrEmpty(adjTask, "requiredCapabilities"),
   status               |-> "pending",
   result               |-> <<>>]

\* ApplyAdjustment with reorder writing the priority of every task
ApplyAdjustmentReorderAll(ts, adj, ms) ==
  IF adj.type = "reorder" THEN
    [i \in 1..Len(ts) |-> [ts[i] EXCEPT !.priority = adj.newPriority]]
  ELSE IF adj.type = "modify" THEN
    [i \in 1..Len(ts) |->
       IF ts[i].id = adj.taskId THEN ObjectAssign(ts[i], adj.modifications) ELSE ts[i]]
  ELSE IF adj.type = "add" THEN MapSet(ts, NewTask(adj.task, ms))
  ELSE ts

\* ApplyAdjustment with reorder deleting the task from the Map
ApplyAdjustmentReorderDeletes(ts, adj, ms) ==
  IF adj.type = "reorder" THEN SelectSeq(ts, LAMBDA t : t.id # adj.taskId)
  ELSE IF adj.type = "modify" THEN
    [i \in 1..Len(ts) |->
       IF ts[i].id = adj.taskId THEN ObjectAssign(ts[i], adj.modifications) ELSE ts[i]]
  ELSE IF adj.type = "add" THEN MapSet(ts, NewTask(adj.task, ms))
  ELSE ts

\* the body of the forEach callback of applyAdjustments, for one adjustment;
\* ms is what Date.now() returns during it
ApplyAdjustment(ts, adj, ms) ==
  IF adj.type = "reorder" THEN
    [i \in 1..Len(ts) |->
       IF ts[i].id = adj.taskId THEN [ts[i] EXCEPT !.priority = adj.newPriority] ELSE ts[i]]
  ELSE IF adj.type = "modify" THEN
    [i \in 1..Len(ts) |->
       IF ts[i].id = adj.taskId THEN ObjectAssign(ts[i], adj.modifications) ELSE ts[i]]
  ELSE IF adj.type = "add" THEN MapSet(ts, NewTask(adj.task, ms))
  ELSE ts

\* getAllTasks, getCompletedTasks, getFailedTasks, getPendingTasks, getInProgressTasks
GetAllTasks(ts) == ts
GetCompletedTasks(ts) == SelectSeq(ts, LAMBDA task : task.status = "completed")
GetFailedTasks(ts) == SelectSeq(ts, LAMBDA task : task.status = "failed")
GetPendingTasks(ts) == SelectSeq(ts, LAMBDA task : task.status = "pending")
GetInProgressTasks(ts) == SelectSeq(ts, LAMBDA task : task.status = "in_progress")

\* n / d of two numbers, kept as the fraction it is; d = 0 gives NaN or Infinity
Quotient(n, d) == [num |-> n, den |-> d]

\* the number 0
Zero == Quotient(0, 1)

\* GetProgressSummary without the test of all.length
GetProgressSummaryUnguarded(ts) ==
  [total          |-> Len(GetAllTasks(ts)),
   completed      |-> Len(GetCompletedTasks(ts)),
   failed         |-> Len(GetFailedTasks(ts)),
   pending        |-> Len(GetPendingTasks(ts)),
   inProgress     |-> Len(GetInProgressTasks(ts)),
   completionRate |-> Quotient(Len(GetCompletedTasks(ts)), Len(GetAllTasks(ts)))]

GetProgressSummary(ts) ==
  [total          |-> Len(GetAllTasks(ts)),
   completed      |-> Len(GetCompletedTasks(ts)),
   failed         |-> Len(GetFailedTasks(ts)),
   pending        |-> Len(GetPendingTasks(ts)),
   inProgress     |-> Len(GetInProgressTasks(ts)),
   completionRate |-> IF Len(GetAllTasks(ts)) > 0
                      THEN Quotient(Len(GetCompletedTasks(ts)), Len(GetAllTasks(ts)))
                      ELSE Zero]


\* ======================================================== AIAgentOrchestrator

\* ------------------------------------------------ what the collaborators return
\* the constructor's config; maxIterations 0 and maxConcurrency 0 stand for "absent"
MaxConcurrencyChoices == {0, 2}
ConfigChoices ==
  [maxIterations : 0..MaxIterCfg, parallelExecution : BOOLEAN,
   maxConcurrency : MaxConcurrencyChoices]

\* the dependency lists of the task lists llm.decompose returns
DepsFor(shape, i, n) ==
  CASE shape = "independent" -> <<>>
    [] shape = "chain"       -> IF i = 1 THEN <<>> ELSE <<i - 1>>
    [] shape = "cycle"       -> <<(i % n) + 1>>
    [] shape = "missing"     -> IF i = n THEN <<n + 1>> ELSE <<>>
    [] shape = "fan"         -> IF i <= 2 THEN <<>> ELSE <<1, 2>>

Shapes == {"independent", "chain", "cycle", "missing", "fan"}

\* the priorities (1 to 10) the Oracle gives its tasks: 4, 2, 5, 3, 1, 4, ...,
\* in an order that is neither that of the list nor its reverse
OraclePriority(i) == ((3 * i) % 5) + 1

OracleTasks(shape, n) ==
  [i \in 1..n |-> [id |-> i, priority |-> OraclePriority(i),
                   dependencies |-> DepsFor(shape, i, n),
                   successThreshold |-> DefaultSuccessThreshold,
                   maxIterations |-> DefaultTaskIterations,
                   requiredCapabilities |-> <<>>,
                   status |-> "pending", result |-> <<>>]]

DecomposeChoices == {OracleTasks(shape, n) : shape \in Shapes, n \in 0..MaxInitTasks}

\* what executeTask returns when it returns: the fields of a TaskResult that
\* are data (confidence in hundredths); results and error are only displayed
ExecuteTaskResults ==
  {[success |-> TRUE,  confidence |-> 100, iterations |-> 1],
   [success |-> FALSE, confidence |-> 0,   iterations |-> 1]}

\* the task of an add adjustment: a record of the fields it gives
AddedTaskChoices ==
  {[name |-> "added"]} \cup {[name |-> "added", id |-> g] : g \in {1, MaxInitTasks + 1}}

\* the adjustments llm.strategize returns
ModificationChoices ==
  {[status |-> s] : s \in TaskStatuses} \cup {[dependencies |-> <<2>>]}
AdjustmentChoices ==
  {[type |-> "reorder", taskId |-> t, newPriority |-> 8] : t \in {1, MaxInitTasks + 1}}
  \cup {[type |-> "modify", taskId |-> t, modifications |-> m] :
          t \in {1, MaxInitTasks + 1}, m \in ModificationChoices}
  \cup {[type |-> "add", task |-> t] : t \in AddedTaskChoices}
  \cup {[type |-> "retry"]}

\* --------------------------------------------------------------- constructor
\* this.maxIterations = config.maxIterations || 100
ResolveMaxIterations(c) ==
  IF c.maxIterations = 0 THEN DefaultMaxIterations ELSE c.maxIterations

\* ResolveConcurrency without the test of parallelExecution
ResolveConcurrencyFlagIgnored(c) ==
  IF c.maxConcurrency = 0 THEN DefaultMaxConcurrency ELSE c.maxConcurrency

\* config.parallelExecution ? (config.maxConcurrency || 3) : 1
ResolveConcurrency(c) ==
  IF c.parallelExecution
  THEN (IF c.maxConcurrency = 0 THEN DefaultMaxConcurrency ELSE c.maxConcurrency)
  ELSE 1

Init ==
  /\ pc = "defineGoal"
  /\ config \in ConfigChoices
  /\ maxIterations = ResolveMaxIterations(config)
  /\ concurrency = ResolveConcurrency(config)
  /\ tasks = <<>>
  /\ iterations = 0
  /\ tasksCompleted = <<>>
  /\ status = "unset"
  /\ goalAchieved = FALSE
  /\ tasksToExecute = <<>>
  /\ queue = <<>>
  /\ activeCount = 0
  /\ tstate = <<>>
  /\ taskResults = <<>>
  /\ adjusted = 0
  /\ now = 0
  /\ exec = [pc |-> "idle"]
  /\ llm = [pc |-> "idle"]
  /\ api = [calls |-> 0]

\* ---------------------------------------------------------------- achieveGoal
\* LoopHead with <= for <
LoopHeadOffByOne(iters) == IF iters <= maxIterations THEN "assess" ELSE "done"

\* the while condition: where control goes with the counter at iters
LoopHead(iters) == IF iters < maxIterations THEN "assess" ELSE "done"

\* availableTasks.slice(0, 3)
Slice(s, n) == SubSeq(s, 1, IF Len(s) < n THEN Len(s) ELSE n)

\* the result executeTaskWithProgress returns from its catch block
CaughtResult == [success |-> FALSE, confidence |-> 0, iterations |-> 1]

\* recentTasks = tasksCompleted.slice(-5)
RecentTasks(ledger) ==
  SubSeq(ledger, IF Len(ledger) > ReflectionWindow THEN Len(ledger) - ReflectionWindow + 1 ELSE 1,
         Len(ledger))

\* FailureRateHigh with >= for >
FailureRateHighInclusive(recent) ==
  10 * Len(SelectSeq(recent, LAMBDA t : ~t.result.success)) >= 6 * Len(recent)

\* failureRate > 0.6, with failureRate = failures / recentTasks.length: the
\* comparison of the two doubles is that of 10 * failures with 6 * length
\* (3 / 5 is the double 0.6 itself, and an empty window gives NaN, not > 0.6)
FailureRateHigh(recent) ==
  10 * Len(SelectSeq(recent, LAMBDA t : ~t.result.success)) > 6 * Len(recent)

\* Promise.all(taskPromises) has resolved
AllResolved == \A i \in 1..Len(tasksToExecute) : tstate[i] = "resolved"

\* the for loop of lines 95-105 over the first k results: the checklist after it
RECURSIVE RecordedTasks(_, _)
RecordedTasks(ts, k) ==
  IF k = 0 THEN ts
  ELSE UpdateTaskStatus(RecordedTasks(ts, k - 1), tasksToExecute[k], taskResults[k][1])

\* ... and the ledger after it
RECURSIVE RecordedLedger(_, _)
RecordedLedger(ledger, k) ==
  IF k = 0 THEN ledger
  ELSE Append(RecordedLedger(ledger, k - 1),
              [task |-> tasksToExecute[k], result |-> taskResults[k][1]])

\* CanAdmit without the limit: a queued unit is started at once
CanAdmitUnbounded == queue # <<>>

\* p-limit: a queued unit is started when activeCount < concurrency
CanAdmit == queue # <<>> /\ activeCount < concurrency

\* llm.analyze resolves (defineGoal)
DefineGoal ==
  /\ pc = "defineGoal"
  /\ pc' = "createChecklist"
  /\ UNCHANGED <<config, maxIterations, concurrency, tasks, iterations, tasksCompleted,
                 status, goalAchieved, tasksToExecute, queue, activeCount, tstate,
                 taskResults, adjusted, now>>

\* llm.decompose resolves: the checklist and the executionResult are built and
\* the loop is entered, up to the await inside isGoalAchieved
CreateChecklist ==
  /\ pc = "createChecklist"
  /\ \E ts \in DecomposeChoices : tasks' = NewChecklist(ts)
  /\ iterations' = 0
  /\ tasksCompleted' = <<>>
  /\ status' = "in_progress"
  /\ pc' = LoopHead(0)
  /\ UNCHANGED <<config, maxIterations, concurrency, goalAchieved, tasksToExecute,
                 queue, activeCount, tstate, taskResults, adjusted, now>>

\* OracleThrows with the catch block returning the result as failed
OracleThrowsReturningFailed ==
  /\ pc \in {"defineGoal", "createChecklist", "assess", "strategize"}
  /\ pc' = "done"
  /\ status' = "failed"
  /\ UNCHANGED <<config, maxIterations, concurrency, tasks, iterations, tasksCompleted,
                 goalAchieved, tasksToExecute, queue, activeCount, tstate,
                 taskResults, adjusted, now>>

\* an awaited Oracle call of the control thread rejects: achieveGoal rethrows
OracleThrows ==
  /\ pc \in {"defineGoal", "createChecklist", "assess", "strategize"}
  /\ pc' = "thrown"
  /\ UNCHANGED <<config, maxIterations, concurrency, tasks, iterations, tasksCompleted,
                 status, goalAchieved, tasksToExecute, queue, activeCount, tstate,
                 taskResults, adjusted, now>>

\* GoalReached with the status set and the loop going on to the next iteration
GoalReachedWithoutBreak ==
  /\ pc = "assess"
  /\ goalAchieved' = TRUE
  /\ status' = "completed"
  /\ iterations' = iterations + 1
  /\ pc' = IF iterations + 1 < maxIterations THEN "assess" ELSE "done"
  /\ UNCHANGED <<config, maxIterations, concurrency, tasks, tasksCompleted,
                 tasksToExecute, queue, activeCount, tstate, taskResults, adjusted, now>>

\* llm.assess resolves with goalAchieved = true
GoalReached ==
  /\ pc = "assess"
  /\ goalAchieved' = TRUE
  /\ status' = "completed"
  /\ pc' = "done"
  /\ UNCHANGED <<config, maxIterations, concurrency, tasks, iterations, tasksCompleted,
                 tasksToExecute, queue, activeCount, tstate, taskResults, adjusted, now>>

\* NoViableTasks with the status completed when every task is completed
NoViableTasksCompleting ==
  /\ pc = "assess"
  /\ Len(GetAvailableTasks(tasks)) = 0
  /\ goalAchieved' = FALSE
  /\ status' = IF Len(GetCompletedTasks(tasks)) = Len(tasks)
                THEN "completed" ELSE "no_viable_tasks"
  /\ pc' = "done"
  /\ UNCHANGED <<config, maxIterations, concurrency, tasks, iterations, tasksCompleted,
                 tasksToExecute, queue, activeCount, tstate, taskResults, adjusted, now>>

\* llm.assess resolves with goalAchieved = false and nothing is available
NoViableTasks ==
  /\ pc = "assess"
  /\ Len(GetAvailableTasks(tasks)) = 0
  /\ goalAchieved' = FALSE
  /\ status' = "no_viable_tasks"
  /\ pc' = "done"
  /\ UNCHANGED <<config, maxIterations, concurrency, tasks, iterations, tasksCompleted,
                 tasksToExecute, queue, activeCount, tstate, taskResults, adjusted, now>>

\* the tasks with every task of the batch marked in_progress
RECURSIVE MarkedBatch(_, _, _)
MarkedBatch(ts, batch, k) ==
  IF k = 0 THEN ts ELSE SetTaskInProgress(MarkedBatch(ts, batch, k - 1), batch[k].id)

\* Dispatch with the whole batch marked in_progress before it is handed over
DispatchMarkingBatch ==
  /\ pc = "assess"
  /\ Len(GetAvailableTasks(tasks)) # 0
  /\ goalAchieved' = FALSE
  /\ LET batch == SubSeq(GetAvailableTasks(tasks), 1,
                         IF Len(GetAvailableTasks(tasks)) < BatchCap
                         THEN Len(GetAvailableTasks(tasks)) ELSE BatchCap) IN
       /\ tasksToExecute' = [i \in 1..Len(batch) |-> batch[i].id]
       /\ queue' = [i \in 1..Len(batch) |-> i]
       /\ tstate' = [i \in 1..Len(batch) |-> "queued"]
       /\ taskResults' = [i \in 1..Len(batch) |-> <<>>]
       /\ tasks' = MarkedBatch(tasks, batch, Len(batch))
  /\ pc' = "batch"
  /\ UNCHANGED <<config, maxIterations, concurrency, iterations, tasksCompleted,
                 status, activeCount, adjusted, now>>

\* llm.assess resolves with goalAchieved = false: the batch is taken and every
\* task of it is handed to parallelLimit, which queues it
Dispatch ==
  /\ pc = "assess"
  /\ Len(GetAvailableTasks(tasks)) # 0
  /\ goalAchieved' = FALSE
  /\ LET batch == Slice(GetAvailableTasks(tasks), BatchCap) IN
       /\ tasksToExecute' = [i \in 1..Len(batch) |-> batch[i].id]
       /\ queue' = [i \in 1..Len(batch) |-> i]
       /\ tstate' = [i \in 1..Len(batch) |-> "queued"]
       /\ taskResults' = [i \in 1..Len(batch) |-> <<>>]
  /\ pc' = "batch"
  /\ UNCHANGED <<config, maxIterations, concurrency, tasks, iterations, tasksCompleted,
                 status, activeCount, adjusted, now>>

\* p-limit starts the unit at the head of its queue: executeTaskWithProgress
\* runs up to its first await (inside executeTask)
Admit ==
  /\ pc = "batch"
  /\ CanAdmit
  /\ LET i == Head(queue) IN
       /\ tasks' = SetTaskInProgress(tasks, tasksToExecute[i])
       /\ tstate' = [tstate EXCEPT ![i] = "running"]
  /\ queue' = Tail(queue)
  /\ activeCount' = activeCount + 1
  /\ UNCHANGED <<pc, config, maxIterations, concurrency, iterations, tasksCompleted,
                 status, goalAchieved, tasksToExecute, taskResults, adjusted, now>>

\* Resolve with the result recorded at once, by the execution itself
ResolveRecordingEarly(i, r) ==
  /\ pc = "batch"
  /\ tstate[i] = "running"
  /\ ~CanAdmit
  /\ tstate' = [tstate EXCEPT ![i] = "resolved"]
  /\ taskResults' = [taskResults EXCEPT ![i] = <<r>>]
  /\ activeCount' = activeCount - 1
  /\ tasks' = UpdateTaskStatus(tasks, tasksToExecute[i], r)
  /\ UNCHANGED <<pc, config, maxIterations, concurrency, iterations, tasksCompleted,
                 status, goalAchieved, tasksToExecute, queue, adjusted, now>>

\* the promise of slot i resolves with result r; p-limit's next() runs
Resolve(i, r) ==
  /\ pc = "batch"
  /\ tstate[i] = "running"
  /\ ~CanAdmit
  /\ tstate' = [tstate EXCEPT ![i] = "resolved"]
  /\ taskResults' = [taskResults EXCEPT ![i] = <<r>>]
  /\ activeCount' = activeCount - 1
  /\ UNCHANGED <<pc, config, maxIterations, concurrency, tasks, iterations, tasksCompleted,
                 status, goalAchieved, tasksToExecute, queue, adjusted, now>>

\* executeTask returns
TaskReturns == \E i \in 1..Len(tasksToExecute), r \in ExecuteTaskResults : Resolve(i, r)

\* executeTask throws: the catch block of executeTaskWithProgress returns
TaskThrows == \E i \in 1..Len(tasksToExecute) : Resolve(i, CaughtResult)

\* Promise.all resolves: the results are recorded in order, then reflectAndAdapt
\* runs up to its await, or to the end of the iteration and the next loop head
Join ==
  /\ pc = "batch"
  /\ AllResolved
  /\ tasks' = RecordedTasks(tasks, Len(tasksToExecute))
  /\ tasksCompleted' = RecordedLedger(tasksCompleted, Len(tasksToExecute))
  /\ IF FailureRateHigh(RecentTasks(tasksCompleted'))
     THEN pc' = "strategize" /\ iterations' = iterations
     ELSE pc' = LoopHead(iterations + 1) /\ iterations' = iterations + 1
  /\ tasksToExecute' = <<>>
  /\ tstate' = <<>>
  /\ taskResults' = <<>>
  /\ UNCHANGED <<config, maxIterations, concurrency, status, goalAchieved, queue,
                 activeCount, adjusted, now>>

\* llm.strategize resolves: applyAdjustments starts on the list it returned
StrategizeReply ==
  /\ pc = "strategize"
  /\ pc' = "applyAdjustments"
  /\ UNCHANGED <<config, maxIterations, concurrency, tasks, iterations, tasksCompleted,
                 status, goalAchieved, tasksToExecute, queue, activeCount, tstate,
                 taskResults, adjusted, now>>

\* one call of the forEach callback of applyAdjustments, on the next adjustment
\* of the list; Date.now() has advanced since the last call or has not
ApplyNext ==
  /\ pc = "applyAdjustments"
  /\ adjusted < MaxAdjustments
  /\ \E adj \in AdjustmentChoices, ms \in {now, now + 1} :
       /\ tasks' = ApplyAdjustment(tasks, adj, ms)
       /\ now' = IF adj.type = "add" /\ OrDefault(adj.task, "id", 0) = 0 THEN ms ELSE now
  /\ adjusted' = adjusted + 1
  /\ UNCHANGED <<pc, config, maxIterations, concurrency, iterations, tasksCompleted,
                 status, goalAchieved, tasksToExecute, queue, activeCount, tstate,
                 taskResults>>

\* EndIteration without the count of the iteration
EndIterationUncounted ==
  /\ pc = "applyAdjustments"
  /\ pc' = LoopHead(iterations)
  /\ UNCHANGED <<config, maxIterations, concurrency, tasks, iterations, tasksCompleted,
                 status, goalAchieved, tasksToExecute, queue, activeCount, tstate,
                 taskResults, adjusted, now>>

\* the list is exhausted: reflectAndAdapt returns and the iteration ends
EndIteration ==
  /\ pc = "applyAdjustments"
  /\ iterations' = iterations + 1
  /\ pc' = LoopHead(iterations + 1)
  /\ UNCHANGED <<config, maxIterations, concurrency, tasks, tasksCompleted, status,
                 goalAchieved, tasksToExecute, queue, activeCount, tstate, taskResults,
                 adjusted, now>>

\* a step of the run: no task execution, LLM call or direct Checklist call of
\* the other specifications is under way
Next ==
  \/ DefineGoal /\ UNCHANGED <<exec, llm, api>>
  \/ CreateChecklist /\ UNCHANGED <<exec, llm, api>>
  \/ OracleThrows /\ UNCHANGED <<exec, llm, api>>
  \/ GoalReached /\ UNCHANGED <<exec, llm, api>>
  \/ NoViableTasks /\ UNCHANGED <<exec, llm, api>>
  \/ Dispatch /\ UNCHANGED <<exec, llm, api>>
  \/ Admit /\ UNCHANGED <<exec, llm, api>>
  \/ TaskReturns /\ UNCHANGED <<exec, llm, api>>
  \/ TaskThrows /\ UNCHANGED <<exec, llm, api>>
  \/ Join /\ UNCHANGED <<exec, llm, api>>
  \/ StrategizeReply /\ UNCHANGED <<exec, llm, api>>
  \/ ApplyNext /\ UNCHANGED <<exec, llm, api>>
  \/ EndIteration /\ UNCHANGED <<exec, llm, api>>

Spec == Init /\ [][Next]_vars


\* ================================================================ AnthropicLLM

\* the reply to a request: the transport failed (ok = FALSE), or a text came
\* back that JSON.parse rejects (json = FALSE), or one it turns into a value
TransportError == [ok |-> FALSE, json |-> FALSE]
Unparsable == [ok |-> TRUE, json |-> FALSE]
Parsed(v) == [ok |-> TRUE, json |-> TRUE, value |-> v]

\* how an awaited method ends: it throws, or it returns a value
Threw(msg) == [threw |-> TRUE, error |-> msg]
Returned(v) == [threw |-> FALSE, value |-> v]

\* makeRequest: a failure of the transport is rethrown
RequestFailed == Threw("LLM request failed")

\* a method whose catch block rethrows
HardMethod(reply, msg) ==
  IF ~reply.ok THEN RequestFailed
  ELSE IF ~reply.json THEN Threw(msg)
  ELSE Returned(reply.value)

\* a method whose catch block returns a default
SoftMethod(reply, default) ==
  IF ~reply.ok THEN RequestFailed
  ELSE IF ~reply.json THEN Returned(default)
  ELSE Returned(reply.value)

LlmAnalyze(reply) == HardMethod(reply, "Failed to parse goal analysis response")

\* decompose fills in what a task of the reply leaves out (0 and <<>> stand for
\* an absent field; the index stands for the id `task_${index + 1}`)
DecomposeDefaults(raw) ==
  [i \in 1..Len(raw) |->
     [id |-> IF raw[i].id = 0 THEN i ELSE raw[i].id,
      priority |-> IF raw[i].priority = 0 THEN DefaultPriority ELSE raw[i].priority,
      dependencies |-> raw[i].dependencies,
      successThreshold |-> OrDefault(raw[i], "successThreshold", DefaultSuccessThreshold),
      maxIterations |-> OrDefault(raw[i], "maxIterations", DefaultTaskIterations),
      requiredCapabilities |-> OrEmpty(raw[i], "requiredCapabilities"),
      status |-> "pending", result |-> <<>>]]

LlmDecompose(reply) ==
  IF ~reply.ok THEN RequestFailed
  ELSE IF ~reply.json THEN Threw("Failed to parse task decomposition response")
  ELSE Returned(DecomposeDefaults(reply.value))

LlmSelectTools(reply) == SoftMethod(reply, [tools |-> <<>>])

LlmSelectTask(reply) == HardMethod(reply, "Failed to select next task")

LlmGenerateToolInput(reply) == HardMethod(reply, "Failed to generate tool input")

\* result.confidence || 0, for the parsed reply r (has = FALSE: no such field)
ConfidenceOrZero(r) == IF r.has THEN r.confidence ELSE 0

\* Clamp without Math.max: Math.min(1, c)
ClampAboveOnly(c) == IF c > 100 THEN 100 ELSE c

\* Math.max(0, Math.min(1, c)), in hundredths
Clamp(c) == IF c < 0 THEN 0 ELSE IF c > 100 THEN 100 ELSE c

LlmEvaluate(reply) ==
  IF ~reply.ok THEN RequestFailed
  ELSE IF ~reply.json THEN Returned([confidence |-> 0])
  ELSE Returned([confidence |-> Clamp(ConfidenceOrZero(reply.value))])

LlmStrategize(reply) == SoftMethod(reply, [adjustments |-> <<>>])

LlmAssess(reply) == SoftMethod(reply, [goalAchieved |-> FALSE])


\* ================================================= executeTask (AIAgentOrchestrator)

\* ------------------------------------------------ what the collaborators return
\* the task handed to executeTask (successThreshold in hundredths)
TaskChoices ==
  [requiresIterativeExecution : BOOLEAN, successThreshold : {0, 80},
   maxIterations : 0..MaxTaskIter]

\* the ids of the tools of the registry
RegisteredTools == {1, 2}

\* the replies to the selectTools request; 9 is the id of no tool
SelectToolsReplies ==
  {TransportError, Unparsable}
  \cup {Parsed([tools |-> l]) : l \in {<<>>, <<1>>, <<1, 2>>, <<9>>, <<9, 1>>}}

GenerateToolInputReplies == {TransportError, Unparsable, Parsed("input")}

\* the replies to the evaluate request (confidence in hundredths)
EvaluateReplies ==
  {TransportError, Unparsable, Parsed([has |-> FALSE, confidence |-> 0])}
  \cup {Parsed([has |-> TRUE, confidence |-> c]) : c \in {-20, 30, 50, 85, 140}}

\* what tool.execute returns when it returns: an object with or without a
\* confidence field
ToolOutputs ==
  {[has |-> FALSE, confidence |-> 0], [has |-> TRUE, confidence |-> 0],
   [has |-> TRUE, confidence |-> 40]}

\* ------------------------------------------------------------------ selectTools
\* ResolveTools without the filter
ResolveToolsUnfiltered(ids) == ids

\* selection.tools.map(id => getTool(id)).filter(tool => tool !== undefined)
ResolveTools(ids) == SelectSeq(ids, LAMBDA id : id \in RegisteredTools)

\* --------------------------------------------------------------------- callTool
\* c || 1, for a number c in hundredths
OrOne(c) == IF c = 0 THEN 100 ELSE c

\* the ToolResult of the try block: result.confidence || 1
SucceededToolResult(tool, out) ==
  [success |-> TRUE, tool |-> tool, output |-> <<out>>,
   confidence |-> OrOne(IF out.has THEN out.confidence ELSE 0), error |-> ""]

\* the ToolResult of the catch block
FailedToolResult(tool, msg) ==
  [success |-> FALSE, tool |-> tool, output |-> <<>>, confidence |-> 0, error |-> msg]

\* the way a callTool call ended, as its ToolResult shows it
Ending(r) == [success |-> r.success, output |-> r.output, error |-> r.error]

\* the call that returned r got as far as tool.execute
ReachedTool(r) == r.success \/ r.error = "tool failed"

\* the calls after the first ToolScriptLen end as the call before them
MayEnd(e, r) ==
  IF Len(e.results) < ToolScriptLen THEN TRUE
  ELSE Ending(r) = Ending(e.results[Len(e.results)])

\* ----------------------------------------------------- executeTaskWithProgress
\* the catch block: executeTask has thrown
Caught(e, msg) ==
  [e EXCEPT !.pc = "caught",
            !.ret = <<[success |-> FALSE, confidence |-> 0, iterations |-> 1,
                       results |-> <<>>, error |-> msg]>>]

\* ----------------------------------------------------------- executeIterativeTask
\* task.maxIterations || 10
TaskIterations(task) ==
  IF task.maxIterations = 0 THEN DefaultTaskIterations ELSE task.maxIterations

\* IterativeReturn with the tool calls counted for the rounds
IterativeReturnCountingCalls(e) ==
  [e EXCEPT !.pc = "returned",
            !.ret = <<[success |-> e.confidence >= e.task.successThreshold,
                       confidence |-> e.confidence, iterations |-> Len(e.results),
                       results |-> e.results, error |-> ""]>>]

\* the return statement
IterativeReturn(e) ==
  [e EXCEPT !.pc = "returned",
            !.ret = <<[success |-> e.confidence >= e.task.successThreshold,
                       confidence |-> e.confidence, iterations |-> e.iterations,
                       results |-> e.results, error |-> ""]>>]

\* WhileHead with executeIterativeTask returning at once when there is no tool
WhileHeadLeavingOnNoTool(e) ==
  IF e.confidence < e.task.successThreshold /\ e.iterations < TaskIterations(e.task)
       /\ e.tools # <<>>
  THEN [e EXCEPT !.k = 1, !.pc = "generateToolInput"]
  ELSE IterativeReturn(e)

\* the while condition and what follows it up to the next await: the first
\* tool of a round is called, or the function returns; a round over no tool
\* has no await and the condition is evaluated again
RECURSIVE WhileHead(_)
WhileHead(e) ==
  IF e.confidence < e.task.successThreshold /\ e.iterations < TaskIterations(e.task)
  THEN IF e.tools = <<>>
       THEN WhileHead([e EXCEPT !.iterations = e.iterations + 1])
       ELSE [e EXCEPT !.k = 1, !.pc = "generateToolInput"]
  ELSE IterativeReturn(e)

\* AfterEvaluate without the break
AfterEvaluateNoBreak(e) ==
  IF e.k < Len(e.tools)
  THEN [e EXCEPT !.k = e.k + 1, !.pc = "generateToolInput"]
  ELSE WhileHead([e EXCEPT !.iterations = e.iterations + 1])

\* after evaluateProgress: break, the next tool of the round, or the round ends
AfterEvaluate(e) ==
  IF e.confidence >= e.task.successThreshold
  THEN WhileHead([e EXCEPT !.iterations = e.iterations + 1])
  ELSE IF e.k < Len(e.tools)
       THEN [e EXCEPT !.k = e.k + 1, !.pc = "generateToolInput"]
       ELSE WhileHead([e EXCEPT !.iterations = e.iterations + 1])

\* -------------------------------------------------------------- executeSingleTask
\* the result for an empty tool list
NoToolResult ==
  [success |-> FALSE, confidence |-> 0, iterations |-> 1, results |-> <<>>,
   error |-> "No suitable tools found for this task"]

\* up to the await of callTool(tools[0])
ExecuteSingleTask(e) ==
  IF e.tools = <<>>
  THEN [e EXCEPT !.pc = "returned", !.ret = <<NoToolResult>>]
  ELSE [e EXCEPT !.k = 1, !.pc = "generateToolInput"]

\* SingleReturn with success asking for a confidence that reaches the threshold
SingleReturnAgainstThreshold(e, r) ==
  [e EXCEPT !.pc = "returned",
            !.ret = <<[success |-> r.success /\ OrOne(r.confidence) >= e.task.successThreshold,
                       confidence |-> OrOne(r.confidence),
                       iterations |-> 1, results |-> <<r>>, error |-> ""]>>]

\* the return statement, r being the ToolResult: result.confidence || 1
SingleReturn(e, r) ==
  [e EXCEPT !.pc = "returned",
            !.ret = <<[success |-> r.success, confidence |-> OrOne(r.confidence),
                       iterations |-> 1, results |-> <<r>>, error |-> ""]>>]

\* callTool has returned r to the mode that called it
AfterCallTool(e, r) ==
  IF e.task.requiresIterativeExecution
  THEN [e EXCEPT !.results = Append(e.results, r), !.pc = "evaluate"]
  ELSE SingleReturn(e, r)

\* ------------------------------------------------- one execution, step by step
\* no run of achieveGoal is under way
NoRun ==
  /\ pc = "idle"
  /\ config = [maxIterations |-> 0, parallelExecution |-> TRUE, maxConcurrency |-> 0]
  /\ maxIterations = DefaultMaxIterations
  /\ concurrency = DefaultMaxConcurrency
  /\ iterations = 0
  /\ tasksCompleted = <<>>
  /\ status = "unset"
  /\ goalAchieved = FALSE
  /\ tasksToExecute = <<>>
  /\ queue = <<>>
  /\ activeCount = 0
  /\ tstate = <<>>
  /\ taskResults = <<>>
  /\ adjusted = 0

\* executeTaskWithProgress has called executeTask, which awaits llm.selectTools
ExecInit ==
  /\ NoRun
  /\ tasks = <<>>
  /\ now = 0
  /\ llm = [pc |-> "idle"]
  /\ api = [calls |-> 0]
  /\ \E t \in TaskChoices :
       exec = [pc |-> "selectTools", task |-> t, selected |-> <<>>, tools |-> <<>>, k |-> 0,
               confidence |-> 0, iterations |-> 0, results |-> <<>>, evals |-> 0,
               invoked |-> 0, history |-> 0, ret |-> <<>>]

\* llm.selectTools settles: the tools are resolved and the mode is entered
SelectToolsReply ==
  /\ exec.pc = "selectTools"
  /\ \E reply \in SelectToolsReplies :
       LET r == LlmSelectTools(reply)
           e == [exec EXCEPT !.selected = r.value.tools,
                             !.tools = ResolveTools(r.value.tools)]
       IN exec' = IF r.threw THEN Caught(exec, r.error)
                  ELSE IF exec.task.requiresIterativeExecution THEN WhileHead(e)
                  ELSE ExecuteSingleTask(e)
  /\ UNCHANGED <<runVars, llm, api>>

\* llm.generateToolInput settles (prepareToolInput, inside callTool's try): the
\* tool is called, or the catch block of callTool returns
GenerateToolInputReply ==
  /\ exec.pc = "generateToolInput"
  /\ \E reply \in GenerateToolInputReplies :
       LET r == LlmGenerateToolInput(reply)
           failed == FailedToolResult(exec.tools[exec.k], r.error)
       IN IF r.threw
          THEN MayEnd(exec, failed) /\ exec' = AfterCallTool(exec, failed)
          ELSE /\ IF Len(exec.results) < ToolScriptLen THEN TRUE
                  ELSE ReachedTool(exec.results[Len(exec.results)])
               /\ exec' = [exec EXCEPT !.pc = "execute"]
  /\ UNCHANGED <<runVars, llm, api>>

\* tool.execute resolves: the call is recorded in executionHistory
ToolReturns ==
  /\ exec.pc = "execute"
  /\ \E out \in ToolOutputs :
       LET r == SucceededToolResult(exec.tools[exec.k], out) IN
       /\ MayEnd(exec, r)
       /\ exec' = AfterCallTool([exec EXCEPT !.invoked = exec.invoked + 1,
                                             !.history = exec.history + 1], r)
  /\ UNCHANGED <<runVars, llm, api>>

\* ToolThrows with the exception leaving callTool
ToolThrowsPropagating ==
  /\ exec.pc = "execute"
  /\ exec' = Caught([exec EXCEPT !.invoked = exec.invoked + 1], "tool failed")
  /\ UNCHANGED <<runVars, llm, api>>

\* tool.execute rejects: the catch block of callTool returns
ToolThrows ==
  /\ exec.pc = "execute"
  /\ LET r == FailedToolResult(exec.tools[exec.k], "tool failed") IN
       /\ MayEnd(exec, r)
       /\ exec' = AfterCallTool([exec EXCEPT !.invoked = exec.invoked + 1], r)
  /\ UNCHANGED <<runVars, llm, api>>

\* llm.evaluate settles (evaluateProgress, in the for loop of executeIterativeTask)
EvaluateReply ==
  /\ exec.pc = "evaluate"
  /\ \E reply \in EvaluateReplies :
       LET r == LlmEvaluate(reply)
           e == [exec EXCEPT !.evals = exec.evals + 1]
       IN exec' = IF r.threw THEN Caught(e, r.error)
                  ELSE AfterEvaluate([e EXCEPT !.confidence = r.value.confidence])
  /\ UNCHANGED <<runVars, llm, api>>

ExecNext ==
  \/ SelectToolsReply
  \/ GenerateToolInputReply
  \/ ToolReturns
  \/ ToolThrows
  \/ EvaluateReply

ExecSpec == ExecInit /\ [][ExecNext]_vars


\* ======================================================= one AnthropicLLM call

Methods ==
  {"analyze", "decompose", "selectTools", "selectTask", "generateToolInput",
   "evaluate", "strategize", "assess"}

\* a task list in which a task leaves out its id and its priority
SparseTasks ==
  <<[id |-> 0, priority |-> 0, dependencies |-> <<>>],
    [id |-> 7, priority |-> 2, dependencies |-> <<1>>]>>

\* the replies a request of each method may get
RepliesTo(method) ==
  CASE method = "analyze" -> {TransportError, Unparsable, Parsed("analysis")}
    [] method = "decompose" ->
         {TransportError, Unparsable, Parsed(SparseTasks)}
         \cup {Parsed(ts) : ts \in DecomposeChoices}
    [] method = "selectTools" -> SelectToolsReplies
    [] method = "selectTask" -> {TransportError, Unparsable, Parsed([taskId |-> 1])}
    [] method = "generateToolInput" -> GenerateToolInputReplies
    [] method = "evaluate" ->
         EvaluateReplies \cup {Parsed([has |-> TRUE, confidence |-> c]) : c \in {0, 100}}
    [] method = "strategize" ->
         {TransportError, Unparsable, Parsed([adjustments |-> <<>>])}
         \cup {Parsed([adjustments |-> <<a>>]) : a \in AdjustmentChoices}
    [] method = "assess" ->
         {TransportError, Unparsable} \cup {Parsed([goalAchieved |-> b]) : b \in BOOLEAN}

\* the method applied to the reply its request got
Settle(method, reply) ==
  CASE method = "analyze" -> LlmAnalyze(reply)
    [] method = "decompose" -> LlmDecompose(reply)
    [] method = "selectTools" -> LlmSelectTools(reply)
    [] method = "selectTask" -> LlmSelectTask(reply)
    [] method = "generateToolInput" -> LlmGenerateToolInput(reply)
    [] method = "evaluate" -> LlmEvaluate(reply)
    [] method = "strategize" -> LlmStrategize(reply)
    [] method = "assess" -> LlmAssess(reply)

\* the try block of the orchestrator around the await of each method: a throw
\* ends in its catch (selectNextTask, the caller of selectTask, is never called)
CatchAround(method) ==
  CASE method \in {"analyze", "decompose", "strategize", "assess"} -> "achieveGoal"
    [] method \in {"selectTools", "evaluate"} -> "executeTaskWithProgress"
    [] method = "generateToolInput" -> "callTool"
    [] method = "selectTask" -> "none"

\* what the catch makes of the throw: achieveGoal rethrows, the other two
\* return a failed result
Effect(method, outcome) ==
  IF ~outcome.threw THEN "value"
  ELSE CASE CatchAround(method) = "achieveGoal" -> "run aborted"
         [] CatchAround(method) = "executeTaskWithProgress" -> "task failed"
         [] CatchAround(method) = "callTool" -> "tool call failed"
         [] CatchAround(method) = "none" -> "thrown"

\* a method has been called and its request is under way
LlmInit ==
  /\ NoRun
  /\ tasks = <<>>
  /\ now = 0
  /\ exec = [pc |-> "idle"]
  /\ api = [calls |-> 0]
  /\ \E method \in Methods : \E reply \in RepliesTo(method) :
       llm = [pc |-> "pending", method |-> method, reply |-> reply]

\* the request settles and the method returns or throws
LlmSettles ==
  /\ llm.pc = "pending"
  /\ LET outcome == Settle(llm.method, llm.reply) IN
       llm' = [pc |-> "settled", method |-> llm.method, reply |-> llm.reply,
               outcome |-> outcome, effect |-> Effect(llm.method, outcome)]
  /\ UNCHANGED <<runVars, exec, api>>

LlmNext == LlmSettles

LlmSpec == LlmInit /\ [][LlmNext]_vars


\* ==================================================== the Checklist, called freely

\* the task ids the calls name: two that a task may have and one that none has
ApiTargets == {1, 2, MaxInitTasks + 1}

\* the tasks of the add adjustments of these calls: those of a run, one that
\* gives every optional field, and one that gives a success threshold of 0
ApiAddedTaskChoices ==
  AddedTaskChoices
  \cup {[name |-> "added", id |-> 2, priority |-> 7, dependencies |-> <<1>>,
          successThreshold |-> 50, maxIterations |-> 3,
          requiredCapabilities |-> <<"search">>],
         [name |-> "added", successThreshold |-> 0]}

\* the adjustments of these calls
ApiAdjustmentChoices ==
  AdjustmentChoices \cup {[type |-> "add", task |-> t] : t \in ApiAddedTaskChoices}

\* a Checklist has been constructed on a task list
ChecklistInit ==
  /\ NoRun
  /\ \E ts \in DecomposeChoices : tasks = NewChecklist(ts)
  /\ now = 0
  /\ exec = [pc |-> "idle"]
  /\ llm = [pc |-> "idle"]
  /\ api = [calls |-> 0, op |-> [name |-> "new"]]

CallSetTaskInProgress ==
  /\ api.calls < MaxApiCalls
  /\ \E id \in ApiTargets :
       /\ tasks' = SetTaskInProgress(tasks, id)
       /\ api' = [calls |-> api.calls + 1,
                  op |-> [name |-> "setTaskInProgress", taskId |-> id]]
  /\ UNCHANGED <<pc, config, maxIterations, concurrency, iterations, tasksCompleted,
                 status, goalAchieved, tasksToExecute, queue, activeCount, tstate,
                 taskResults, adjusted, now, exec, llm>>

CallUpdateTaskStatus ==
  /\ api.calls < MaxApiCalls
  /\ \E id \in ApiTargets, r \in ExecuteTaskResults :
       /\ tasks' = UpdateTaskStatus(tasks, id, r)
       /\ api' = [calls |-> api.calls + 1,
                  op |-> [name |-> "updateTaskStatus", taskId |-> id, result |-> r]]
  /\ UNCHANGED <<pc, config, maxIterations, concurrency, iterations, tasksCompleted,
                 status, goalAchieved, tasksToExecute, queue, activeCount, tstate,
                 taskResults, adjusted, now, exec, llm>>

\* the adjustments applied so far by the forEach of the applyAdjustments call
\* that is under way
AppliedList(a) == IF a.op.name = "applyAdjustments" THEN a.op.list ELSE <<>>

\* one call of the forEach callback of applyAdjustments: the adjustments applied
\* one after the other, with no other call between them, are the list of one call
CallApplyAdjustment ==
  /\ api.calls < MaxApiCalls
  /\ \E adj \in ApiAdjustmentChoices, ms \in {now, now + 1} :
       /\ tasks' = ApplyAdjustment(tasks, adj, ms)
       /\ now' = IF adj.type = "add" /\ OrDefault(adj.task, "id", 0) = 0 THEN ms ELSE now
       /\ api' = [calls |-> api.calls + 1,
                  op |-> [name |-> "applyAdjustments", adjustment |-> adj, ms |-> ms,
                          list |-> Append(AppliedList(api), adj)]]
  /\ UNCHANGED <<pc, config, maxIterations, concurrency, iterations, tasksCompleted,
                 status, goalAchieved, tasksToExecute, queue, activeCount, tstate,
                 taskResults, adjusted, exec, llm>>

ChecklistNext ==
  \/ CallSetTaskInProgress
  \/ CallUpdateTaskStatus
  \/ CallApplyAdjustment

ChecklistSpec == ChecklistInit /\ [][ChecklistNext]_vars


\* ================================================================== properties

\* helpers of the properties: the checklist read as a set, independently of
\* the way the operations above compute
TaskIds == {tasks[i].id : i \in 1..Len(tasks)}
StatusOf(id) == tasks[CHOOSE i \in 1..Len(tasks) : tasks[i].id = id].status
DepSet(i) == {tasks[i].dependencies[k] : k \in 1..Len(tasks[i].dependencies)}
Runnable(i) ==
  /\ tasks[i].status = "pending"
  /\ \A d \in DepSet(i) : d \in TaskIds /\ StatusOf(d) = "completed"
AvailableIds == {GetAvailableTasks(tasks)[k].id : k \in 1..Len(GetAvailableTasks(tasks))}
BatchSlots == 1..Len(tasksToExecute)
RunningSlots == {i \in BatchSlots : tstate[i] = "running"}

\* C1: in every reachable state getAvailableTasks() returns exactly the pending
\* tasks all of whose dependencies name an existing, completed task (each once);
\* a task with dependencies is never returned while one of them is pending,
\* in_progress, failed or missing.
C1_AvailableExactlyRunnable ==
  /\ AvailableIds = {tasks[i].id : i \in {j \in 1..Len(tasks) : Runnable(j)}}
  /\ Len(GetAvailableTasks(tasks)) = Cardinality(AvailableIds)
  /\ \A i \in 1..Len(tasks) :
       (tasks[i].id \in AvailableIds /\ tasks[i].dependencies # <<>>) =>
          \A d \in DepSet(i) :
             d \in TaskIds /\ StatusOf(d) \notin {"pending", "in_progress", "failed"}

\* a task with dependencies is returned, while another pending task is held
\* back by a dependency that exists and is not completed
C1_Witness ==
  /\ \E i \in 1..Len(tasks) : tasks[i].dependencies # <<>> /\ tasks[i].id \in AvailableIds
  /\ \E i \in 1..Len(tasks) :
       /\ tasks[i].status = "pending" /\ tasks[i].id \notin AvailableIds
       /\ \E d \in DepSet(i) : d \in TaskIds /\ StatusOf(d) # "completed"

\* C2 (as claimed): a task that is completed or failed keeps that status in
\* every step of the run, and no task that left pending is pending again.
C2_TerminalStatusIsFinal ==
  [][\A i \in 1..Len(tasks) :
       /\ tasks[i].status \in {"completed", "failed"} =>
            (i <= Len(tasks') /\ tasks'[i].id = tasks[i].id
               /\ tasks'[i].status = tasks[i].status)
       /\ tasks[i].status # "pending" =>
            (i <= Len(tasks') /\ tasks'[i].status # "pending")]_vars

\* C3 (as claimed): the join records the result of every task of the batch, and
\* when reflection starts and at every later loop head no task is in_progress.
C3_BatchAtomicity ==
  /\ [][(pc = "batch" /\ pc' # "batch") =>
          \A i \in BatchSlots : \E j \in 1..Len(tasks') :
             /\ tasks'[j].id = tasksToExecute[i]
             /\ tasks'[j].status \in {"completed", "failed"}
             /\ tasks'[j].result = taskResults[i]]_vars
  /\ [](pc \in {"strategize", "assess"} =>
          \A i \in 1..Len(tasks) : tasks[i].status # "in_progress")

\* C4: the executions admitted and not yet resolved never number more than N,
\* N being 1 with parallelExecution off and maxConcurrency (3 when absent) with
\* it on; the tasks of the batch not yet admitted are in the queue.
C4_ConcurrencyBound ==
  /\ Cardinality(RunningSlots) <= concurrency
  /\ activeCount = Cardinality(RunningSlots)
  /\ ~config.parallelExecution => concurrency = 1
  /\ (config.parallelExecution /\ config.maxConcurrency = 0) => concurrency = 3
  /\ (config.parallelExecution /\ config.maxConcurrency # 0) =>
        concurrency = config.maxConcurrency
  /\ {queue[k] : k \in 1..Len(queue)} = {i \in BatchSlots : tstate[i] = "queued"}

\* N executions are under way and a task of the batch waits in the queue
C4_Witness ==
  /\ pc = "batch"
  /\ Cardinality(RunningSlots) = concurrency
  /\ queue # <<>>
  /\ concurrency = 2

\* C5: while the batch is in flight nothing is recorded; the results are
\* recorded in one step, taken when every execution of the batch has resolved,
\* in submission order, and reflection starts in that step, not before.
C5_FullBatchJoin ==
  /\ [][(pc = "batch" /\ \E i \in BatchSlots : tstate[i] # "resolved") =>
          /\ tasksCompleted' = tasksCompleted
          /\ pc' = "batch"
          /\ \A j \in 1..Len(tasks) :
               /\ Len(tasks') = Len(tasks)
               /\ tasks'[j].status \in {"completed", "failed"} =>
                    tasks'[j].status = tasks[j].status
               /\ tasks'[j].result = tasks[j].result]_vars
  /\ [][tasksCompleted' # tasksCompleted =>
          /\ pc = "batch"
          /\ \A i \in BatchSlots : tstate[i] = "resolved"
          /\ Len(tasksCompleted') = Len(tasksCompleted) + Len(tasksToExecute)
          /\ SubSeq(tasksCompleted', 1, Len(tasksCompleted)) = tasksCompleted
          /\ \A i \in BatchSlots :
               /\ tasksCompleted'[Len(tasksCompleted) + i].task = tasksToExecute[i]
               /\ <<tasksCompleted'[Len(tasksCompleted) + i].result>> = taskResults[i]]_vars
  /\ [][(pc' = "strategize" /\ pc # "strategize") =>
          (pc = "batch" /\ tasksCompleted' # tasksCompleted)]_vars

\* a later task of the batch has resolved with a failure before an earlier one,
\* still running, and nothing of the batch is recorded
C5_Witness ==
  /\ pc = "batch"
  /\ \E i, j \in BatchSlots :
       /\ i < j
       /\ tstate[i] = "running"
       /\ tstate[j] = "resolved"
       /\ ~taskResults[j][1].success
       /\ \A k \in 1..Len(tasks) :
            tasks[k].id = tasksToExecute[j] => tasks[k].status = "in_progress"


C7_GoalCheckFirst ==
  /\ [](pc = "assess" => tasksToExecute = <<>> /\ RunningSlots = {})
  /\ [][(pc' = "batch" /\ pc # "batch") => (pc = "assess" /\ ~goalAchieved')]_vars
  /\ [][(goalAchieved' /\ ~goalAchieved) =>
          /\ pc = "assess" /\ pc' = "done"
          /\ status' = "completed"
          /\ UNCHANGED <<tasks, tasksCompleted, iterations, tasksToExecute, tstate>>]_vars
  /\ [][goalAchieved => UNCHANGED vars]_vars

\* a run that ended completed on a goal check after at least one iteration,
\* with a task left runnable and never started
C7_Witness ==
  /\ pc = "done"
  /\ goalAchieved
  /\ status = "completed"
  /\ iterations >= 1
  /\ \E i \in 1..Len(tasks) : Runnable(i)
  /\ \A i \in 1..Len(tasks) : tasks[i].status # "in_progress"

\* two tasks, each depending on the other
TwoTaskCycle ==
  /\ Len(tasks) = 2
  /\ tasks[1].id # tasks[2].id
  /\ tasks[2].id \in DepSet(1)
  /\ tasks[1].id \in DepSet(2)

\* C8: when the goal check answers false and no task is runnable, that step
\* ends the run with status no_viable_tasks and changes neither the checklist,
\* the ledger nor the counter; on the first iteration of a checklist of two
\* tasks depending on each other this gives no_viable_tasks with counter 0 and
\* an empty ledger.
C8_NoViableTasks ==
  /\ [][(pc = "assess" /\ pc' # "thrown" /\ ~goalAchieved'
           /\ \A i \in 1..Len(tasks) : ~Runnable(i)) =>
          /\ pc' = "done"
          /\ status' = "no_viable_tasks"
          /\ UNCHANGED <<tasks, tasksCompleted, iterations, tasksToExecute, tstate>>]_vars
  /\ [][(pc = "assess" /\ pc' # "thrown" /\ ~goalAchieved'
           /\ iterations = 0 /\ tasksCompleted = <<>> /\ TwoTaskCycle) =>
          /\ pc' = "done"
          /\ status' = "no_viable_tasks"
          /\ iterations' = 0
          /\ tasksCompleted' = <<>>
          /\ tasks' = tasks]_vars

\* the run of a two-task cycle has ended with no_viable_tasks, nothing executed
C8_Witness ==
  /\ pc = "done"
  /\ TwoTaskCycle
  /\ status = "no_viable_tasks"
  /\ iterations = 0
  /\ tasksCompleted = <<>>
  /\ \A i \in 1..Len(tasks) : tasks[i].status = "pending"

\* C9: the counter never exceeds maxIterations; inside the loop it is below
\* it, so no batch is taken once it is reached; when it is reached the loop
\* has been left and the status is still in_progress.
C9_IterationCap ==
  /\ iterations <= maxIterations
  /\ pc \in {"assess", "batch", "strategize", "applyAdjustments"} =>
        iterations < maxIterations
  /\ iterations = maxIterations =>
        (pc = "done" /\ status = "in_progress" /\ tasksToExecute = <<>>)

\* the cap ended the run while a task was still runnable
C9_Witness ==
  /\ pc = "done"
  /\ iterations = maxIterations
  /\ status = "in_progress"
  /\ \E i \in 1..Len(tasks) : Runnable(i)

\* the number of failed entries among the last min(5, length) entries of ledger
WindowSize(ledger) == IF Len(ledger) < 5 THEN Len(ledger) ELSE 5
WindowFailures(ledger) ==
  Cardinality({k \in (Len(ledger) - WindowSize(ledger) + 1)..Len(ledger) :
                 ~ledger[k].result.success})

\* C10: the step that records a batch asks for a strategy exactly when more
\* than 0.6 of the last min(5, length) ledger entries are failures; strategize
\* is awaited only there, once per iteration, and its adjustments are applied
\* before the iteration ends, hence before the next availability query.
C10_ReflectionTrigger ==
  /\ [][(pc = "batch" /\ pc' # "batch") =>
          (pc' = "strategize" <=>
             5 * WindowFailures(tasksCompleted') > 3 * WindowSize(tasksCompleted'))]_vars
  /\ [][(pc' = "strategize" /\ pc # "strategize") =>
          (pc = "batch" /\ iterations' = iterations)]_vars
  /\ [][pc = "strategize" =>
          (pc' \in {"applyAdjustments", "thrown"} /\ tasks' = tasks)]_vars
  /\ [][(pc = "applyAdjustments" /\ pc' # "applyAdjustments") =>
          (pc' \in {"assess", "done"} /\ iterations' = iterations + 1 /\ tasks' = tasks)]_vars
  /\ [][(tasks' # tasks /\ pc \notin {"createChecklist", "batch"}) =>
          (pc = "applyAdjustments" /\ pc' = "applyAdjustments")]_vars

\* strategize is awaited with 4 failures among the last 5 of at least 5 entries
C10_Witness ==
  /\ pc = "strategize"
  /\ Len(tasksCompleted) >= 5
  /\ WindowFailures(tasksCompleted) = 4

\* the number of ledger entries of task id
Executions(id) == Cardinality({k \in 1..Len(tasksCompleted) : tasksCompleted[k].task = id})

\* C18: the step that records a batch with a failed result goes on to the
\* reflection or to the next loop head, never to an abort; and as long as no
\* adjustment has been applied, a failed task stays failed, is not returned by
\* getAvailableTasks(), is in no batch and has been executed exactly once.
C18_FailedTaskNotRetried ==
  /\ [][(pc = "batch" /\ pc' # "batch") =>
          /\ pc' \in {"strategize", "assess", "done"}
          /\ \A i \in BatchSlots : ~taskResults[i][1].success =>
               \E j \in 1..Len(tasks') :
                  tasks'[j].id = tasksToExecute[i] /\ tasks'[j].status = "failed"]_vars
  /\ [][\A i \in 1..Len(tasks) :
          (adjusted' = 0 /\ tasks[i].status = "failed") =>
             tasks'[i].status = "failed"]_vars
  /\ [](adjusted = 0 =>
          \A i \in 1..Len(tasks) : tasks[i].status = "failed" =>
             /\ tasks[i].id \notin AvailableIds
             /\ \A k \in BatchSlots : tasksToExecute[k] # tasks[i].id
             /\ Executions(tasks[i].id) = 1)

\* a later batch is in flight while a task of an earlier batch is failed, no
\* adjustment having been applied
C18_Witness ==
  /\ pc = "batch"
  /\ adjusted = 0
  /\ iterations >= 1
  /\ RunningSlots # {}
  /\ \E i \in 1..Len(tasks) : tasks[i].status = "failed"

\* ------------------------------------------------------- one execution (ExecSpec)
\* helpers of the properties of an execution
Iterative == exec.task.requiresIterativeExecution
Threshold == exec.task.successThreshold
RoundBudget == IF exec.task.maxIterations = 0 THEN 10 ELSE exec.task.maxIterations
ThrownFailure(tool) ==
  [success |-> FALSE, tool |-> tool, output |-> <<>>, confidence |-> 0,
   error |-> "tool failed"]

\* C11: an iterative execution performs at most maxIterations rounds (10 when
\* the task gives none), each of at most one call per selected tool; every tool
\* call is followed by an evaluation; no tool is called once an evaluation has
\* returned a confidence >= successThreshold; and the result returned has
\* success = TRUE exactly when the last evaluated confidence is >= successThreshold.
C11_IterativeLoop ==
  /\ [](Iterative =>
          /\ exec.iterations <= RoundBudget
          /\ Len(exec.results) <= RoundBudget * Len(exec.tools)
          /\ exec.evals = IF exec.pc = "evaluate" THEN Len(exec.results) - 1
                          ELSE Len(exec.results)
          /\ exec.pc \in {"generateToolInput", "execute"} => exec.confidence < Threshold
          /\ exec.pc = "returned" =>
               /\ exec.ret[1].success = (exec.confidence >= Threshold)
               /\ exec.ret[1].confidence = exec.confidence
               /\ exec.ret[1].iterations = exec.iterations)
  /\ [][(Iterative /\ Len(exec'.results) > Len(exec.results)) =>
          exec.confidence < Threshold]_vars

\* with two tools selected, the threshold is reached by the evaluation after the
\* first tool of the second round: the second tool is not called again
C11_Witness ==
  /\ Iterative
  /\ exec.pc = "returned"
  /\ exec.ret[1].success
  /\ Len(exec.tools) = 2
  /\ Len(exec.results) = 3
  /\ exec.iterations = 2

\* C12 (as claimed): an iterative task with successThreshold 0.8 whose
\* successive evaluated confidences are two values below 0.8 and then 0.85
\* returns after exactly 3 rounds, with success = TRUE and iterations = 3.
C12_ThreeEvaluationsThreeRounds ==
  (Iterative /\ exec.pc = "returned" /\ Threshold = 80 /\ exec.evals = 3
     /\ exec.confidence = 85) =>
    (exec.ret[1].iterations = 3 /\ exec.ret[1].success)

\* C12 (amended): iterations counts the rounds: while a round is under way the
\* counter is the number of rounds completed, and the value returned is the
\* number of rounds begun, the round whose evaluation reached successThreshold
\* included; with exactly one tool selected a round is one evaluation, and three
\* evaluations ending with 0.85 against 0.8 give success = TRUE and iterations = 3.
C12_IterationsCountRounds ==
  (Iterative /\ exec.tools # <<>>) =>
    LET n == Len(exec.tools) IN
    /\ exec.pc \in {"generateToolInput", "execute"} =>
         Len(exec.results) = exec.iterations * n + exec.k - 1
    /\ exec.pc = "evaluate" => Len(exec.results) = exec.iterations * n + exec.k
    /\ exec.pc = "returned" =>
         /\ exec.ret[1].iterations = (Len(exec.results) + n - 1) \div n
         /\ (n = 1 /\ Threshold = 80 /\ exec.evals = 3 /\ exec.confidence = 85) =>
              (exec.ret[1].iterations = 3 /\ exec.ret[1].success)

\* one tool, threshold 0.8, three evaluations of which the last returned 0.85
C12_Witness ==
  /\ Iterative
  /\ exec.pc = "returned"
  /\ Len(exec.tools) = 1
  /\ Threshold = 80
  /\ exec.evals = 3
  /\ exec.confidence = 85
  /\ exec.ret[1].iterations = 3
  /\ exec.ret[1].success

\* C13: in single mode the tools are the selected ids that the registry knows,
\* the others being dropped without an error; when none is left no tool is
\* called and the result is the failure with confidence 0, iterations 1, no
\* results and the 'No suitable tools' error.
C13_NoToolSingleMode ==
  (~Iterative /\ exec.pc \notin {"selectTools", "caught"}) =>
    /\ \A i \in 1..Len(exec.tools) : exec.tools[i] \in {1, 2}
    /\ Len(exec.tools) =
         Cardinality({i \in 1..Len(exec.selected) : exec.selected[i] \in {1, 2}})
    /\ (\A i \in 1..Len(exec.selected) : exec.selected[i] \notin {1, 2}) =>
         /\ exec.pc = "returned"
         /\ exec.invoked = 0
         /\ exec.history = 0
         /\ exec.ret[1] = [success |-> FALSE, confidence |-> 0, iterations |-> 1,
                           results |-> <<>>,
                           error |-> "No suitable tools found for this task"]

\* the one id selected names no tool and the failure has been returned
C13_Witness ==
  /\ ~Iterative
  /\ exec.pc = "returned"
  /\ exec.selected = <<9>>
  /\ exec.ret[1].error = "No suitable tools found for this task"
  /\ exec.invoked = 0

\* C14 (as claimed): in single mode with a tool resolved, the first tool is
\* called once and the result has iterations 1, the success of that call and
\* the confidence of its ToolResult: what the tool reported, 1 if it reported
\* none, 0 if the call failed.
C14_SingleToolResult ==
  (~Iterative /\ exec.pc = "returned" /\ exec.tools # <<>>) =>
    LET t == exec.ret[1] IN
    /\ exec.invoked <= 1
    /\ Len(t.results) = 1
    /\ t.results[1].tool = exec.tools[1]
    /\ t.iterations = 1
    /\ t.success = t.results[1].success
    /\ t.confidence = t.results[1].confidence
    /\ t.results[1].confidence =
         IF ~t.results[1].success THEN 0
         ELSE IF t.results[1].output[1].has THEN t.results[1].output[1].confidence
         ELSE 100

\* C15: a tool.execute that throws gives the ToolResult with success = FALSE and
\* confidence 0; in iterative mode it is appended to the results and the
\* evaluation follows as after any call, in single mode it is the result of the
\* task; the exception never reaches the catch block of the task.
C15_ToolFailureAbsorbed ==
  /\ [][(exec.pc = "execute" /\ exec'.history = exec.history) =>
          /\ exec'.invoked = exec.invoked + 1
          /\ IF Iterative
             THEN /\ exec'.pc = "evaluate"
                  /\ exec'.results = Append(exec.results, ThrownFailure(exec.tools[exec.k]))
             ELSE /\ exec'.pc = "returned"
                  /\ exec'.ret[1].results = <<ThrownFailure(exec.tools[exec.k])>>]_vars
  /\ [](exec.pc = "caught" => exec.ret[1].error # "tool failed")

\* an iterative execution has returned whose first tool call threw and whose
\* second one succeeded
C15_Witness ==
  /\ Iterative
  /\ exec.pc = "returned"
  /\ Len(exec.results) >= 2
  /\ exec.results[1] = ThrownFailure(exec.tools[1])
  /\ exec.results[2].success

\* C16 (as claimed, for generateToolInput): a failure of the call is not
\* absorbed into a tool result.
C16_StructuralFailureNotAbsorbed ==
  LET Absorbed(rs) ==
        \E i \in 1..Len(rs) :
           rs[i].error \in {"LLM request failed", "Failed to generate tool input"}
  IN /\ ~Absorbed(exec.results)
     /\ exec.ret # <<>> => ~Absorbed(exec.ret[1].results)

\* --------------------------------------------------- one AnthropicLLM call (LlmSpec)
\* C17 (as claimed): a selectTools, evaluate, strategize or assess call whose
\* request fails in the transport or whose reply does not parse returns its
\* default (no tool, confidence 0, no adjustment, goal not achieved), and
\* neither the run nor the task is ended by it.
C17_AdvisoryFailureDefaults ==
  (llm.pc = "settled"
     /\ llm.method \in {"selectTools", "evaluate", "strategize", "assess"}
     /\ (~llm.reply.ok \/ ~llm.reply.json)) =>
    /\ ~llm.outcome.threw
    /\ llm.effect = "value"
    /\ llm.outcome.value =
         CASE llm.method = "selectTools" -> [tools |-> <<>>]
           [] llm.method = "evaluate" -> [confidence |-> 0]
           [] llm.method = "strategize" -> [adjustments |-> <<>>]
           [] llm.method = "assess" -> [goalAchieved |-> FALSE]

\* ------------------------------------------- the Checklist, called freely (ChecklistSpec)
\* the last call was applyAdjustments on an add adjustment
AddCalled(a) == a.op.name = "applyAdjustments" /\ a.op.adjustment.type = "add"

\* C19: no setTaskInProgress, updateTaskStatus or applyAdjustments call makes
\* the number of tasks smaller or takes an id out of the Map, and the number
\* changes only by an add adjustment, which makes it one more.
C19_TasksOnlyGrow ==
  [][/\ Len(tasks') >= Len(tasks)
     /\ \A i \in 1..Len(tasks) : \E j \in 1..Len(tasks') : tasks'[j].id = tasks[i].id
     /\ Len(tasks') # Len(tasks) =>
          (AddCalled(api') /\ Len(tasks') = Len(tasks) + 1)]_vars

\* an add has made the Map one task longer and a call of another kind followed
C19_Witness ==
  /\ api.calls = 2
  /\ api.op.name \in {"setTaskInProgress", "updateTaskStatus"}
  /\ \E i \in 1..Len(tasks) : tasks[i].id >= TimestampIdBase
  /\ \E i \in 1..Len(tasks) : tasks[i].status # "pending"

\* C20 (as claimed): an add adjustment that gives no id makes the Map one task
\* longer, under an id that no task had before it, be it a task of the
\* construction or one added earlier, in the same call or not.
C20_FreshUniqueId ==
  [][(api'.calls = api.calls + 1 /\ AddCalled(api') /\ "id" \notin DOMAIN api'.op.adjustment.task) =>
       /\ Len(tasks') = Len(tasks) + 1
       /\ \A i \in 1..Len(tasks) : tasks[i].id # tasks'[Len(tasks')].id]_vars

\* the value of field f of the task an add adjustment describes, as C21 states
\* it: the value the adjustment gives, or the default when it gives none
GivenOr(adjTask, f, default) == IF f \in DOMAIN adjTask THEN adjTask[f] ELSE default

\* C21 (as claimed): the task an add adjustment creates is pending and has, for
\* each optional field, the value the adjustment gives, or priority 5, success
\* threshold 0.8, maxIterations 10, no dependencies and no capabilities where
\* the adjustment gives none.
C21_AddDefaults ==
  [][(api'.calls = api.calls + 1 /\ AddCalled(api')) =>
       LET given == api'.op.adjustment.task
           newId == GivenOr(given, "id", TimestampIdBase + api'.op.ms)
       IN  \E j \in 1..Len(tasks') :
             /\ tasks'[j].id = newId
             /\ tasks'[j].status = "pending"
             /\ tasks'[j].priority = GivenOr(given, "priority", 5)
             /\ tasks'[j].successThreshold = GivenOr(given, "successThreshold", 80)
             /\ tasks'[j].maxIterations = GivenOr(given, "maxIterations", 10)
             /\ tasks'[j].dependencies = GivenOr(given, "dependencies", <<>>)
             /\ tasks'[j].requiredCapabilities =
                  GivenOr(given, "requiredCapabilities", <<>>)]_vars

\* C22: updateTaskStatus(id, result) on an id the Map has sets that task's
\* status to completed when result.success and to failed when not, stores the
\* result in it, and changes no other field and no other task; on an id the
\* Map does not have it changes nothing, and it ends the same way (no throw).
C22_UpdateTaskStatus ==
  [][(api'.calls = api.calls + 1 /\ api'.op.name = "updateTaskStatus") =>
       LET id == api'.op.taskId
           result == api'.op.result
       IN  /\ Len(tasks') = Len(tasks)
           /\ \A i \in 1..Len(tasks) :
                IF tasks[i].id = id
                THEN /\ tasks'[i].status = (IF result.success THEN "completed" ELSE "failed")
                     /\ tasks'[i].result = <<result>>
                     /\ DOMAIN tasks'[i] = DOMAIN tasks[i]
                     /\ \A f \in DOMAIN tasks[i] \ {"status", "result"} :
                          tasks'[i][f] = tasks[i][f]
                ELSE tasks'[i] = tasks[i]
           /\ (\A i \in 1..Len(tasks) : tasks[i].id # id) => tasks' = tasks
           /\ pc' = pc]_vars

\* a failure has been recorded for task 2 while task 1, in progress, stayed so
C22_Witness ==
  /\ api.calls = 2
  /\ api.op.name = "updateTaskStatus" /\ api.op.taskId = 2 /\ ~api.op.result.success
  /\ Len(tasks) >= 3
  /\ tasks[1].status = "in_progress"
  /\ tasks[2].status = "failed" /\ tasks[2].result = <<api.op.result>>
  /\ tasks[3].status = "pending"

\* C23 (as claimed): setTaskInProgress(id) changes the Checklist only by moving
\* the task of that id from pending to in_progress: a task that is not pending
\* (completed or failed, say) stays as it is, no other task is touched, and on
\* an id the Map does not have nothing changes.
C23_OnlyPendingMoves ==
  [][(api'.calls = api.calls + 1 /\ api'.op.name = "setTaskInProgress") =>
       /\ Len(tasks') = Len(tasks)
       /\ \A i \in 1..Len(tasks) :
            IF tasks[i].id = api'.op.taskId /\ tasks[i].status = "pending"
            THEN tasks'[i] = [tasks[i] EXCEPT !.status = "in_progress"]
            ELSE tasks'[i] = tasks[i]]_vars

\* the last call applied one adjustment of an applyAdjustments list
AdjustmentApplied == api'.calls = api.calls + 1 /\ api'.op.name = "applyAdjustments"

\* C24: an adjustment whose tag is none of reorder, modify and add, and a
\* reorder or modify that names an id the Map does not have, leave the
\* Checklist as it is and raise nothing; a reorder of a task the Map has
\* changes the priority of that task and nothing else; and every adjustment
\* of the list, whatever came before it in the list, is applied to the
\* Checklist the adjustments before it left (a modify patches its task, an add
\* puts its task in the Map).
C24_IgnoredAdjustments ==
  [][AdjustmentApplied =>
       LET adj == api'.op.adjustment
       IN  /\ pc' = pc
           /\ api'.op.list = Append(AppliedList(api), adj)
           /\ adj.type \notin {"reorder", "modify", "add"} => tasks' = tasks
           /\ adj.type \in {"reorder", "modify"} =>
                /\ Len(tasks') = Len(tasks)
                /\ \A i \in 1..Len(tasks) : tasks[i].id # adj.taskId => tasks'[i] = tasks[i]
                /\ (\A i \in 1..Len(tasks) : tasks[i].id # adj.taskId) => tasks' = tasks
           /\ adj.type = "reorder" =>
                \A i \in 1..Len(tasks) :
                  tasks[i].id = adj.taskId =>
                    tasks'[i] = [tasks[i] EXCEPT !.priority = adj.newPriority]
           /\ adj.type = "modify" =>
                \A i \in 1..Len(tasks) :
                  tasks[i].id = adj.taskId =>
                    \A f \in DOMAIN tasks[i] :
                      tasks'[i][f] = (IF f \in DOMAIN adj.modifications
                                      THEN adj.modifications[f] ELSE tasks[i][f])
           /\ adj.type = "add" =>
                \E j \in 1..Len(tasks') :
                  tasks'[j].id = GivenOr(adj.task, "id", TimestampIdBase + api'.op.ms)]_vars

\* a list of an adjustment with an unknown tag and a reorder of task 1 has been
\* applied: task 1 has the new priority and nothing else has changed
C24_Witness ==
  /\ api.calls = 2
  /\ api.op.name = "applyAdjustments"
  /\ Len(api.op.list) = 2
  /\ api.op.list[1].type = "retry"
  /\ api.op.list[2] = [type |-> "reorder", taskId |-> 1, newPriority |-> 8]
  /\ Len(tasks) >= 2
  /\ tasks[1].priority = 8 /\ tasks[1].status = "pending"
  /\ tasks[2].priority # 8

\* ------------------------------------------------------------- the batch (Spec)
\* the places in the Map of the tasks that are available
AvailablePlaces(ts) == {i \in 1..Len(ts) : IsAvailable(ts, ts[i])}

\* the place in the Map of the task of this id
PlaceOf(ts, id) == CHOOSE i \in 1..Len(ts) : ts[i].id = id

\* the ids of the batch an iteration would take from this Checklist
BatchOf(ts) ==
  LET avail == GetAvailableTasks(ts)
  IN  [k \in 1..(IF Len(avail) < 3 THEN Len(avail) ELSE 3) |-> avail[k].id]

\* the two Checklists differ at most in the priorities of their tasks
SameButPriorities(ts, us) ==
  /\ Len(ts) = Len(us)
  /\ \A i \in 1..Len(ts) : us[i] = [ts[i] EXCEPT !.priority = us[i].priority]

\* C25: the batch of an iteration is the first min(3, number available) of the
\* available tasks in the insertion order of the Map, never more than 3 tasks,
\* whatever the concurrency limit N and whatever the priorities; and a step
\* that changes priorities only (a reorder adjustment) leaves the batch that
\* would be taken as it was.
C25_BatchIsFirstThree ==
  [][/\ (pc = "assess" /\ pc' = "batch") =>
          LET avail == AvailablePlaces(tasks)
              size == IF Cardinality(avail) < 3 THEN Cardinality(avail) ELSE 3
          IN  /\ Len(tasksToExecute') = size
              /\ \A k \in 1..size :
                   LET p == PlaceOf(tasks, tasksToExecute'[k])
                   IN  p \in avail /\ Cardinality({i \in avail : i < p}) = k - 1
     /\ Len(tasksToExecute') <= 3
     /\ SameButPriorities(tasks, tasks') => BatchOf(tasks') = BatchOf(tasks)]_vars

\* with N = 1, a batch of three has been taken from more than three available
\* tasks, leaving out a task of higher priority than one it took, and one of
\* lower priority than one it took
C25_Witness ==
  /\ pc = "batch"
  /\ concurrency = 1
  /\ Len(tasksToExecute) = 3
  /\ Len(queue) = 3
  /\ \E u \in AvailablePlaces(tasks), k \in 1..3 :
       /\ \A j \in 1..3 : tasksToExecute[j] # tasks[u].id
       /\ tasks[u].priority > Get(tasks, tasksToExecute[k]).priority
  /\ \E u \in AvailablePlaces(tasks), k \in 1..3 :
       /\ \A j \in 1..3 : tasksToExecute[j] # tasks[u].id
       /\ tasks[u].priority < Get(tasks, tasksToExecute[k]).priority

\* ------------------------------------------------- getProgressSummary (ChecklistSpec)
\* the fraction q is the number n / d
IsRatio(q, n, d) == q.den # 0 /\ q.num * d = n * q.den

\* the number of tasks of this status
CountOf(ts, st) == Cardinality({i \in 1..Len(ts) : ts[i].status = st})

RECURSIVE Recorded(_, _, _)
\* the Checklist after updateTaskStatus has recorded successes for the tasks
\* 1..c and failures for the tasks c+1..c+f
Recorded(ts, c, f) ==
  IF c + f = 0 THEN ts
  ELSE IF f > 0
       THEN UpdateTaskStatus(Recorded(ts, c, f - 1), c + f,
                             [success |-> FALSE, confidence |-> 0, iterations |-> 1])
       ELSE UpdateTaskStatus(Recorded(ts, c - 1, 0), c,
                             [success |-> TRUE, confidence |-> 100, iterations |-> 1])

\* a Checklist of 10 tasks: 4 completed, 1 failed, 5 pending
TenTasks == Recorded(NewChecklist(OracleTasks("independent", 10)), 4, 1)

\* C26: in the summary getProgressSummary returns, completed + failed +
\* pending + inProgress = total, each count is the number of tasks of that
\* status, and completionRate is completed / total when total > 0 and 0 when
\* total = 0; for 10 tasks of which 4 are completed, 1 is failed and 5 are
\* pending it is 0.4.
C26_ProgressSummary ==
  LET s == GetProgressSummary(tasks)
      ten == GetProgressSummary(TenTasks)
  IN  /\ s.total = Len(tasks)
      /\ s.completed = CountOf(tasks, "completed")
      /\ s.failed = CountOf(tasks, "failed")
      /\ s.pending = CountOf(tasks, "pending")
      /\ s.inProgress = CountOf(tasks, "in_progress")
      /\ s.completed + s.failed + s.pending + s.inProgress = s.total
      /\ s.total > 0 => IsRatio(s.completionRate, CountOf(tasks, "completed"), Len(tasks))
      /\ s.total = 0 => IsRatio(s.completionRate, 0, 1)
      /\ ten.total = 10 /\ ten.completed = 4 /\ ten.failed = 1 /\ ten.pending = 5
      /\ IsRatio(ten.completionRate, 4, 10)

\* a Checklist of five tasks after two calls: one completed, one failed, three pending
C26_Witness ==
  /\ api.calls = 2
  /\ GetProgressSummary(tasks).total = 5
  /\ GetProgressSummary(tasks).completed = 1
  /\ GetProgressSummary(tasks).failed = 1
  /\ GetProgressSummary(tasks).pending = 3
  /\ IsRatio(GetProgressSummary(tasks).completionRate, 2, 10)

\* ----------------------------------------------------- evaluate's confidence (LlmSpec)
\* evaluate has returned a value
EvaluateReturned == llm.pc = "settled" /\ llm.method = "evaluate" /\ ~llm.outcome.threw

\* C27: every confidence evaluate returns lies in [0, 1] (0..100 in
\* hundredths): a raw value above 1 comes back as 1, one below 0 as 0, one in
\* the range as it is, and a reply that has no confidence or cannot be parsed
\* gives 0.
C27_ConfidenceClamped ==
  EvaluateReturned =>
    LET c == llm.outcome.value.confidence
        raw == llm.reply.value.confidence
    IN  /\ c >= 0 /\ c <= 100
        /\ ~llm.reply.json => c = 0
        /\ (llm.reply.json /\ ~llm.reply.value.has) => c = 0
        /\ (llm.reply.json /\ llm.reply.value.has) =>
             /\ raw > 100 => c = 100
             /\ raw < 0 => c = 0
             /\ (raw >= 0 /\ raw <= 100) => c = raw

\* the Oracle has answered 1.4 and evaluate has returned 1
C27_Witness ==
  /\ EvaluateReturned
  /\ llm.reply.json /\ llm.reply.value.has /\ llm.reply.value.confidence = 140
  /\ llm.outcome.value.confidence = 100

\* ------------------------------------------------------ executionHistory (ExecSpec)
\* C28 (as claimed): every invocation of a tool, whether it returns or throws,
\* appends one entry to executionHistory, so that the length of the log is the
\* number of invocations made so far.
C28_HistoryCountsInvocations == exec.pc # "idle" => exec.history = exec.invoked

\* ------------------------------------------------------------------ termination (Spec)
\* the run has ended: achieveGoal has returned or has thrown
Ended == pc \in {"done", "thrown"}

\* the number of tasks of the batch that are running
Running == Cardinality({i \in 1..Len(tstate) : tstate[i] = "running"})

\* how far the control thread is from the end of the iteration it is in
PhaseRank ==
  CASE pc = "applyAdjustments" -> 1 + (MaxAdjustments - adjusted)
    [] pc = "strategize"       -> 2 + MaxAdjustments
    [] pc = "batch"            -> 3 + MaxAdjustments + 2 * Len(queue) + Running
    [] pc = "assess"           -> 4 + MaxAdjustments + 2 * 3

\* a bound on the number of steps the run has left
StepsLeft ==
  CASE Ended                  -> 0
    [] pc = "defineGoal"      -> (maxIterations + 1) * (4 + MaxAdjustments + 2 * 3) + 2
    [] pc = "createChecklist" -> (maxIterations + 1) * (4 + MaxAdjustments + 2 * 3) + 1
    [] OTHER -> (maxIterations - iterations) * (4 + MaxAdjustments + 2 * 3) + PhaseRank

\* C29: every run of achieveGoal ends once the calls it awaits have settled:
\* StepsLeft, which is never negative, gets smaller with every step of the
\* run, so no run has more than StepsLeft steps, a step being a settled call
\* or a stretch of code between two awaits; a run that has not ended can
\* always take a step; and no run makes more than maxIterations outer
\* iterations, the body of the loop being entered only while fewer than that
\* have been made.
C29_RunEnds ==
  /\ [](iterations <= maxIterations)
  /\ [](pc \in {"assess", "batch", "strategize", "applyAdjustments"} =>
          iterations < maxIterations)
  /\ [](~Ended => ENABLED Next)
  /\ [](StepsLeft >= 0)
  /\ [][StepsLeft' < StepsLeft]_vars

\* a run has ended by the bound on its iterations, after reflecting once
C29_Witness ==
  /\ pc = "done"
  /\ status = "in_progress"
  /\ iterations = maxIterations
  /\ iterations = 2
  /\ adjusted = 1

\* ------------------------------------------------------- the result's status (Spec)
\* C30: the status of the ExecutionResult is in_progress, completed or
\* no_viable_tasks from the moment the result exists (it does not exist, and
\* status is "unset", until the checklist has been created), so the result
\* achieveGoal returns never has the status failed, whatever number of tasks
\* failed; a run that throws returns no result.
C30_StatusNeverFailed ==
  /\ status \in {"unset", "in_progress", "completed", "no_viable_tasks"}
  /\ pc = "done" => status \in {"in_progress", "completed", "no_viable_tasks"}
  /\ pc = "thrown" => status \in {"unset", "in_progress"}

\* a run has returned after two iterations in which every task failed
C30_Witness ==
  /\ pc = "done"
  /\ status \in {"in_progress", "no_viable_tasks"}
  /\ Len(tasksCompleted) >= 4
  /\ \A k \in 1..Len(tasksCompleted) : ~tasksCompleted[k].result.success
  /\ \A i \in 1..Len(tasks) : tasks[i].status = "failed"

\* ------------------------------------------------- completed and the goal check (Spec)
\* every task of the Checklist is completed
AllCompleted == \A i \in 1..Len(tasks) : tasks[i].status = "completed"

\* the status is completed exactly when a goal check has answered true, and a
\* run whose first check answers true has executed nothing
CompletedIffGoalReached ==
  /\ status = "completed" <=> goalAchieved
  /\ (pc = "done" /\ goalAchieved /\ iterations = 0) => tasksCompleted = <<>>

\* C31 (as claimed): the status returned is completed if and only if a goal
\* check of the run answered true; a run whose first check answers true ends
\* completed with nothing executed; and a run that ends with every task
\* completed and every check answered false ends with no_viable_tasks.
C31_AllCompletedNoViableTasks ==
  /\ CompletedIffGoalReached
  /\ (pc = "done" /\ ~goalAchieved /\ AllCompleted) => status = "no_viable_tasks"

\* C31 (amended): ... and a run that ends with every task completed and every
\* check answered false ends with no_viable_tasks when the loop came round to
\* another check, and with in_progress when the last task completed in the
\* iteration that reached maxIterations.
C31_AllCompletedNoViableTasksOrCap ==
  /\ CompletedIffGoalReached
  /\ (pc = "done" /\ ~goalAchieved /\ AllCompleted) =>
        \/ status = "no_viable_tasks" /\ iterations < maxIterations
        \/ status = "in_progress" /\ iterations = maxIterations

\* every task has completed, the Oracle has answered false each time, and the
\* run has ended with no_viable_tasks
C31_Witness ==
  /\ pc = "done"
  /\ ~goalAchieved
  /\ Len(tasks) >= 4
  /\ AllCompleted
  /\ Len(tasksCompleted) = Len(tasks)
  /\ status = "no_viable_tasks"

\* ------------------------------------------------------ dependencies first (Spec)
\* the ids the task of batch slot i depends on
SlotDeps(i) ==
  LET t == Get(tasks, tasksToExecute[i])
  IN  {t.dependencies[k] : k \in 1..Len(t.dependencies)}

\* the ledger holds a successful result of task id
RecordedCompleted(id) ==
  \E k \in 1..Len(tasksCompleted) :
    tasksCompleted[k].task = id /\ tasksCompleted[k].result.success

\* C32 (as claimed): a task is marked in_progress and started only when every
\* one of its dependencies is a completed task whose successful result the
\* ledger holds, recorded in an earlier iteration; so no batch holds a task
\* together with one of its dependencies, and the two never run at once.
C32_DependenciesRecordedFirst ==
  /\ [][(pc = "batch" /\ pc' = "batch") =>
          \A i \in BatchSlots :
            (tstate[i] = "queued" /\ tstate'[i] = "running") =>
              \A d \in SlotDeps(i) :
                d \in TaskIds /\ StatusOf(d) = "completed" /\ RecordedCompleted(d)]_vars
  /\ [](pc = "batch" =>
          \A i \in BatchSlots, j \in BatchSlots : tasksToExecute[j] \notin SlotDeps(i))

\* ------------------------------------------------------------ at most once (Spec)
\* no adjustment applied so far: no task is in the ledger twice or in the
\* batch twice, and the ledger is no longer than the Checklist
ExecutedAtMostOnce ==
  /\ \A id \in TaskIds : Executions(id) <= 1
  /\ \A k \in 1..Len(tasksCompleted) : tasksCompleted[k].task \in TaskIds
  /\ \A i \in BatchSlots, j \in BatchSlots :
       tasksToExecute[i] = tasksToExecute[j] => i = j
  /\ Len(tasksCompleted) <= Len(tasks)

\* C33 (as claimed): in a run where no adjustment is applied each task is
\* executed at most once: no id is in the ledger twice, no task is in a batch
\* twice, and the ledger is never longer than the number of tasks nor than 3
\* times the iteration counter.
C33_AtMostOnce ==
  adjusted = 0 =>
    /\ ExecutedAtMostOnce
    /\ Len(tasksCompleted) <= 3 * iterations

\* C33 (amended): ... nor than 3 times the iteration counter at a loop head
\* and when achieveGoal returns; while the reflection of an iteration is under
\* way the batch is in the ledger and not yet in the counter, and the ledger
\* is no longer than 3 times the counter plus one.
C33_AtMostOnceCountedAfterReflection ==
  adjusted = 0 =>
    /\ ExecutedAtMostOnce
    /\ pc \in {"assess", "batch", "done"} => Len(tasksCompleted) <= 3 * iterations
    /\ Len(tasksCompleted) <= 3 * (iterations + 1)
    /\ Len(tasksCompleted) > 3 * iterations =>
         (pc \in {"strategize", "applyAdjustments", "thrown"}
            /\ FailureRateHigh(RecentTasks(tasksCompleted)))

\* two iterations have run with no adjustment, the second on the tasks the
\* first left runnable, and some task has failed
C33_Witness ==
  /\ adjusted = 0
  /\ pc = "done"
  /\ iterations = 2
  /\ Len(tasksCompleted) = 5
  /\ Len(tasks) = 5
  /\ \E k \in 1..Len(tasksCompleted) : ~tasksCompleted[k].result.success

\* ------------------------------------------------------------ blocked tasks (Spec)
\* the places of the tasks that have a dependency that names no task, a failed
\* task, or a task of B
BlockedBy(B) ==
  {i \in 1..Len(tasks) :
     \E d \in DepSet(i) :
       \/ d \notin TaskIds
       \/ \E j \in 1..Len(tasks) :
            tasks[j].id = d /\ (tasks[j].status = "failed" \/ j \in B)}

RECURSIVE BlockedWithin(_)
\* the tasks with a chain of at most n dependencies to a failed or missing task
BlockedWithin(n) == IF n = 0 THEN {} ELSE BlockedBy(BlockedWithin(n - 1))

\* the tasks that depend, directly or transitively, on a failed or missing task
Blocked == BlockedWithin(Len(tasks))

\* C34: as long as no adjustment is applied, a task that depends, directly or
\* through other tasks, on a failed task or on an id that names no task is
\* pending, is in no batch and has no entry in the ledger; so it has never
\* been executed and is pending when the run ends.
C34_BlockedStaysPending ==
  adjusted = 0 =>
    \A i \in Blocked :
      /\ tasks[i].status = "pending"
      /\ Executions(tasks[i].id) = 0
      /\ \A k \in BatchSlots : tasksToExecute[k] # tasks[i].id

\* the run of a chain of tasks has ended after its first task failed: the
\* second task, which depends on it, and the third, which depends on the
\* second, are pending and were never executed
C34_Witness ==
  /\ pc = "done"
  /\ adjusted = 0
  /\ Len(tasks) >= 3
  /\ tasks[1].status = "failed"
  /\ DepSet(2) = {tasks[1].id}
  /\ DepSet(3) = {tasks[2].id}
  /\ {2, 3} \subseteq Blocked
  /\ 3 \notin BlockedWithin(1)
  /\ tasks[2].status = "pending" /\ tasks[3].status = "pending"
  /\ Len(tasksCompleted) = 1

\* ------------------------------------------------ iterative mode, no tool (ExecSpec)
\* C35: an iterative execution whose selection resolves to no tool calls no
\* tool and makes no evaluation; with successThreshold > 0 it makes every
\* round of its budget (maxIterations, 10 when the task gives none) and
\* returns success = FALSE, confidence 0, iterations = the budget and no
\* results; with successThreshold <= 0 the loop is not entered and it returns
\* success = TRUE with iterations 0.
C35_IterativeNoTool ==
  (Iterative /\ exec.pc \notin {"selectTools", "caught"} /\ exec.tools = <<>>) =>
    /\ exec.pc = "returned"
    /\ exec.invoked = 0 /\ exec.history = 0 /\ exec.evals = 0
    /\ exec.ret[1].results = <<>>
    /\ exec.ret[1].confidence = 0
    /\ Threshold > 0 =>
         (~exec.ret[1].success /\ exec.ret[1].iterations = RoundBudget)
    /\ Threshold <= 0 =>
         (exec.ret[1].success /\ exec.ret[1].iterations = 0)

\* an iterative task with threshold 0.8 and maxIterations 3, whose one
\* selected id names no tool, has returned after 3 rounds
C35_Witness ==
  /\ Iterative
  /\ exec.pc = "returned"
  /\ exec.selected = <<9>>
  /\ exec.tools = <<>>
  /\ Threshold = 80
  /\ exec.task.maxIterations = 3
  /\ exec.ret[1].iterations = 3
  /\ ~exec.ret[1].success

\* ------------------------------------------------- single mode's threshold (ExecSpec)
\* the status updateTaskStatus gives a task when it records this result
RecordedStatus(result) ==
  UpdateTaskStatus(NewChecklist(OracleTasks("independent", 1)), 1, result)[1].status

\* C36: in single mode the result does not depend on the task's
\* successThreshold: it is a success exactly when the one tool call succeeded,
\* and the task is then recorded as completed, also when the confidence of
\* the result is below the threshold.
C36_SingleModeIgnoresThreshold ==
  (~Iterative /\ exec.pc = "returned" /\ exec.tools # <<>>) =>
    /\ Len(exec.ret[1].results) = 1
    /\ exec.ret[1].success = exec.ret[1].results[1].success
    /\ exec.ret[1].results[1].success => RecordedStatus(exec.ret[1]) = "completed"
    /\ ~exec.ret[1].results[1].success => RecordedStatus(exec.ret[1]) = "failed"

\* the tool of a single-mode task with threshold 0.8 has returned with
\* confidence 0.4, and the result is a success of confidence 0.4
C36_Witness ==
  /\ ~Iterative
  /\ exec.pc = "returned"
  /\ Threshold = 80
  /\ exec.invoked = 1
  /\ exec.ret[1].success
  /\ exec.ret[1].confidence = 40
  /\ exec.ret[1].confidence < Threshold
  /\ RecordedStatus(exec.ret[1]) = "completed"

\* ------------------------------------------------ add and the existing tasks (ChecklistSpec)
\* C37 (as claimed): an add adjustment leaves every task the Checklist already
\* has as it is, also when it carries the id of one of them, and makes the
\* number of tasks one more.
C37_AddLeavesExistingTasks ==
  [][(AdjustmentApplied /\ AddCalled(api')) =>
       /\ Len(tasks') = Len(tasks) + 1
       /\ \A i \in 1..Len(tasks) : tasks'[i] = tasks[i]]_vars

\* ------------------------------------------------------ sequential batches (Spec)
\* C38: with parallelExecution off the limit N is 1, and the tasks of a batch
\* run one after the other in the order of the batch: a task is started (and
\* makes its first call) only when every task before it in the batch has
\* resolved, so at most one execution is under way and the one that starts is
\* the head of the queue.
C38_SequentialInOrder ==
  /\ [](~config.parallelExecution =>
          /\ concurrency = 1
          /\ Cardinality(RunningSlots) <= 1
          /\ \A i \in BatchSlots :
               tstate[i] # "queued" => \A j \in 1..(i - 1) : tstate[j] = "resolved")
  /\ [][(~config.parallelExecution /\ pc = "batch" /\ pc' = "batch") =>
          \A i \in BatchSlots :
            (tstate[i] = "queued" /\ tstate'[i] = "running") =>
              /\ RunningSlots = {}
              /\ \A j \in BatchSlots : (j < i <=> tstate[j] = "resolved")
              /\ tasks'[PlaceOf(tasks, tasksToExecute[i])].status = "in_progress"]_vars

\* with N = 1, the first task of a batch of three has resolved, the second
\* runs and the third waits
C38_Witness ==
  /\ ~config.parallelExecution
  /\ config.maxConcurrency = 2
  /\ pc = "batch"
  /\ tstate = <<"resolved", "running", "queued">>
  /\ queue = <<3>>
  /\ StatusOf(tasksToExecute[3]) = "pending"

====
